---- MODULE Spec2Model ----
(***************************************************************************)
(* A model of the yaca key-material subsystem (src/src/key.c), of the      *)
(* seal/open streaming contexts (src/src/seal.c), of the digest contexts   *)
(* (src/src/digest.c), and of the generic context operations and the      *)
(* per-process initialization (src/src/crypto.c).                          *)
(*                                                                         *)
(* The cryptographic provider (OpenSSL 1.0.x) is the environment: its      *)
(* parsers, writers and codecs are modelled by what they return to the     *)
(* calling code, on abstract key blobs (armor, container, algorithm,       *)
(* encryption password) and on concrete byte strings (base64).             *)
(***************************************************************************)
EXTENDS Integers, Sequences, FiniteSets, TLC

VARIABLES
    key,      \* the key handle the client holds (KEY_NULL when none)
    buf,      \* the client's (data, data_len) output pair of yaca_key_export
    pkeys,    \* ids of the live backend EVP_PKEY objects
    mem,      \* number of live yaca_malloc/yaca_zalloc blocks
    ctx,      \* the context handle the client holds (CTX_NULL when none)
    cctxs,    \* number of live backend EVP_CIPHER_CTX objects
    envelope, \* the (sym_key, iv) pair the client got from yaca_seal_init
    pub,      \* the second key handle: the output of yaca_key_extract_public
    mdctxs,   \* number of live backend EVP_MD_CTX objects
    wire,     \* what the client fed to and got from the streaming calls
    lib,      \* the process-wide state of crypto.c and each worker's position
    last      \* the last API call: its arguments, result code and outputs

vars == <<key, buf, pkeys, mem, ctx, cctxs, envelope, pub, mdctxs, wire, lib, last>>

(***************************************************************************)
(* Bounds of the model                                                     *)
(***************************************************************************)
MaxDataLen == 4      \* longest free-form byte string handed to import
MaxInputLen == 2     \* longest input_len handed to a streaming update
MaxLeaks == 1        \* blocks that may be lost before the client stops generating
MaxPlainLen == 3     \* longest plaintext sent through a seal/open round trip
NumWorkers == 2      \* threads that call yaca_initialize and yaca_cleanup

(***************************************************************************)
(* Program constants                                                       *)
(***************************************************************************)
YACA_KEY_UNSAFE_64BIT == 64
YACA_KEY_UNSAFE_128BIT == 128
YACA_KEY_192BIT == 192

YACA_ERROR_NONE == "NONE"
YACA_ERROR_INVALID_ARGUMENT == "INVALID_ARGUMENT"
YACA_ERROR_OUT_OF_MEMORY == "OUT_OF_MEMORY"
YACA_ERROR_INTERNAL == "INTERNAL"
YACA_ERROR_PASSWORD_INVALID == "PASSWORD_INVALID"

SimpleTypes == {"SYMMETRIC", "DES", "IV"}
EvpTypes == {"RSA_PUB", "RSA_PRIV", "DSA_PUB", "DSA_PRIV"}
\* DH_PUB stands for the key types the switch statements leave to `default'
KeyTypes == SimpleTypes \cup EvpTypes \cup {"DH_PUB"}

KeyFormats == {"DEFAULT", "PKCS8"}
FileFormats == {"RAW", "BASE64", "PEM", "DER"}

\* what the environment makes fail during a call: nothing, an allocation
\* (yaca_malloc/yaca_zalloc returns NULL), or a provider primitive
Faults == {"none", "oom", "internal"}

\* a char* password: NULL, the empty string, or a non-empty string
NoPassword == "<NULL>"
Passwords == {NoPassword, "", "pw1", "pw2"}

(***************************************************************************)
(* Byte strings and the provider's base64 codec                            *)
(***************************************************************************)
ByteVals == {0, 61, 65}     \* a non-base64 byte, '=' and 'A'

RECURSIVE ByteSeqs(_)
ByteSeqs(n) ==
    IF n = 0 THEN {<<>>}
    ELSE LET shorter == ByteSeqs(n - 1)
         IN  shorter \cup {Append(s, b) : s \in {t \in shorter : Len(t) = n - 1}, b \in ByteVals}

Fill(b, n) == [i \in 1..n |-> b]

\* OpenSSL's data_ascii2bin: the 6-bit value of a base64 character ('=' maps
\* to 0), -2 for white space, end of line and '-', -1 for any other byte
conv_ascii2bin(c) ==
    IF c >= 65 /\ c <= 90 THEN c - 65
    ELSE IF c >= 97 /\ c <= 122 THEN c - 71
    ELSE IF c >= 48 /\ c <= 57 THEN c + 4
    ELSE IF c = 43 THEN 62
    ELSE IF c = 47 THEN 63
    ELSE IF c = 61 THEN 0
    ELSE IF c \in {9, 10, 13, 32, 45} THEN -2
    ELSE -1

conv_bin2ascii(v) ==
    IF v <= 25 THEN v + 65
    ELSE IF v <= 51 THEN v + 71
    ELSE IF v <= 61 THEN v - 4
    ELSE IF v = 62 THEN 43
    ELSE 47

RECURSIVE StripTail(_)
StripTail(s) ==
    IF Len(s) > 3 /\ conv_ascii2bin(s[Len(s)]) = -2
    THEN StripTail(SubSeq(s, 1, Len(s) - 1))
    ELSE s

RECURSIVE TrimHead(_)
TrimHead(s) ==
    IF Len(s) > 0 /\ s[1] \in {9, 32} THEN TrimHead(Tail(s)) ELSE s

RECURSIVE DecodeGroups(_)
DecodeGroups(s) ==
    IF Len(s) = 0 THEN <<>>
    ELSE LET l == conv_ascii2bin(s[1]) * 262144 + conv_ascii2bin(s[2]) * 4096
                  + conv_ascii2bin(s[3]) * 64 + conv_ascii2bin(s[4])
         IN  << l \div 65536, (l \div 256) % 256, l % 256 >>
             \o DecodeGroups(SubSeq(s, 5, Len(s)))

\* EVP_DecodeBlock: the decoded bytes (3 per 4 characters), or "bad"
EVP_DecodeBlock(data) ==
    LET Decode(f) ==
            IF Len(f) % 4 /= 0 THEN [ok |-> FALSE, d |-> <<>>]
            ELSE IF \E i \in 1..Len(f) : conv_ascii2bin(f[i]) < 0
                 THEN [ok |-> FALSE, d |-> <<>>]
                 ELSE [ok |-> TRUE, d |-> DecodeGroups(f)]
    IN  Decode(StripTail(TrimHead(data)))

\* BIO_read on a base64 filter BIO with BIO_FLAGS_BASE64_NO_NL, read to the
\* end: the decoded block less one byte per trailing '=' (two at most); a
\* block that does not decode yields no bytes
b64_read(data) ==
    LET n == Len(data)
        pad == IF n > 2 /\ data[n] = 61 THEN (IF data[n - 1] = 61 THEN 2 ELSE 1) ELSE 0
        Read(blk) == IF blk.ok /\ Len(blk.d) - pad > 0
                     THEN SubSeq(blk.d, 1, Len(blk.d) - pad)
                     ELSE <<>>
    IN  Read(EVP_DecodeBlock(data))

RECURSIVE EncodeGroups(_)
EncodeGroups(d) ==
    IF Len(d) = 0 THEN <<>>
    ELSE IF Len(d) = 1
         THEN << conv_bin2ascii(d[1] \div 4), conv_bin2ascii((d[1] % 4) * 16), 61, 61 >>
    ELSE IF Len(d) = 2
         THEN << conv_bin2ascii(d[1] \div 4),
                 conv_bin2ascii((d[1] % 4) * 16 + d[2] \div 16),
                 conv_bin2ascii((d[2] % 16) * 4), 61 >>
    ELSE << conv_bin2ascii(d[1] \div 4),
            conv_bin2ascii((d[1] % 4) * 16 + d[2] \div 16),
            conv_bin2ascii((d[2] % 16) * 4 + d[3] \div 64),
            conv_bin2ascii(d[3] % 64) >>
         \o EncodeGroups(SubSeq(d, 4, Len(d)))

\* variant that leaves the '=' padding out
b64_write_unpadded(d) == SelectSeq(EncodeGroups(d), LAMBDA c : c /= 61)

\* BIO_write + BIO_flush on a base64 filter BIO with BIO_FLAGS_BASE64_NO_NL
b64_write(d) == EncodeGroups(d)

(***************************************************************************)
(* Keys and blobs                                                          *)
(***************************************************************************)
KEY_NULL == [shape |-> "null"]

SimpleKey(type, bits, d) == [shape |-> "simple", type |-> type, bits |-> bits, d |-> d]

EvpKey(type, pkey) == [shape |-> "evp", type |-> type, evp |-> pkey]

\* a backend EVP_PKEY object
PKey(alg, private, id) == [alg |-> alg, private |-> private, id |-> id]

\* a blob of raw bytes
Bytes(d) == [kind |-> "bytes", d |-> d]

\* an ASN.1 key structure: PEM or DER armor; traditional (PKCS#1/SSLeay),
\* PKCS#8, SubjectPublicKeyInfo or X509 certificate container; enc is the
\* password it is encrypted under (NoEnc when it is not encrypted)
NoEnc == "<none>"
Asn(armor, container, alg, enc, cipher) ==
    [kind |-> "asn", armor |-> armor, container |-> container, alg |-> alg,
     enc |-> enc, cipher |-> cipher]

NoBlob == [kind |-> "none"]

\* src and fmt record, for the client, the key and the file format a
\* buffer was exported from
BUF_UNSET == [st |-> "unset", blob |-> NoBlob, src |-> KEY_NULL, fmt |-> "none"]

CTX_NULL == [type |-> "null"]

FreshId(live) == CHOOSE i \in 1..(Cardinality(live) + 1) : i \notin live

(***************************************************************************)
(* key.c: symmetric import (base64 detection, raw fallback)                *)
(***************************************************************************)
\* variant that does not reject a length that is no multiple of 4
base64_decode_length_nomod4(data) ==
    LET data_len == Len(data)
        padded == IF data_len >= 1 /\ data[data_len] = 61
                  THEN (IF data_len >= 2 /\ data[data_len - 1] = 61 THEN 2 ELSE 1)
                  ELSE 0
    IN  [ret |-> YACA_ERROR_NONE, len |-> (data_len \div 4) * 3 - padded]

base64_decode_length(data) ==
    LET data_len == Len(data)
        padded == IF data[data_len] = 61
                  THEN (IF data[data_len - 1] = 61 THEN 2 ELSE 1)
                  ELSE 0
    IN  IF data_len % 4 /= 0
        THEN [ret |-> YACA_ERROR_INVALID_ARGUMENT, len |-> 0]
        ELSE [ret |-> YACA_ERROR_NONE, len |-> (data_len \div 4) * 3 - padded]

\* [ret, out]: out is the decoded byte string when ret is YACA_ERROR_NONE
base64_decode(data, fault) ==
    LET Decode(b64_len, out) ==
            IF b64_len.ret /= YACA_ERROR_NONE
            THEN [ret |-> b64_len.ret, out |-> <<>>]
            ELSE IF fault = "internal"      \* BIO_new / BIO_new_mem_buf returns NULL
            THEN [ret |-> YACA_ERROR_INTERNAL, out |-> <<>>]
            ELSE IF Len(out) /= b64_len.len
            THEN [ret |-> YACA_ERROR_INVALID_ARGUMENT, out |-> <<>>]
            ELSE [ret |-> YACA_ERROR_NONE, out |-> out]
    IN  Decode(base64_decode_length(data), b64_read(data))

\* [ret, key, mem]: key is the value stored to *key (KEY_NULL: not written),
\* mem the number of blocks the call leaves allocated
import_simple(key_type, data, fault) ==
    LET Package(ret, key_data) ==
            LET key_data_len == Len(key_data)
                key_bits == key_data_len * 8
            IN  IF ret /= YACA_ERROR_NONE /\ ret /= YACA_ERROR_INVALID_ARGUMENT
                THEN [ret |-> ret, key |-> KEY_NULL, mem |-> 0]
                ELSE IF key_type = "DES" /\ key_bits /= YACA_KEY_UNSAFE_64BIT
                        /\ key_bits /= YACA_KEY_UNSAFE_128BIT /\ key_bits /= YACA_KEY_192BIT
                THEN [ret |-> YACA_ERROR_INVALID_ARGUMENT, key |-> KEY_NULL, mem |-> 0]
                ELSE IF fault = "oom"
                THEN [ret |-> YACA_ERROR_OUT_OF_MEMORY, key |-> KEY_NULL, mem |-> 0]
                ELSE [ret |-> YACA_ERROR_NONE,
                      key |-> SimpleKey(key_type, key_data_len * 8, key_data),
                      mem |-> 1]
        Decoded(dec) ==
            IF dec.ret = YACA_ERROR_NONE /\ Len(dec.out) <= 0
            THEN [ret |-> YACA_ERROR_INTERNAL, key |-> KEY_NULL, mem |-> 0]
            ELSE Package(dec.ret, IF dec.ret = YACA_ERROR_NONE THEN dec.out ELSE data)
    IN  Decoded(base64_decode(data, fault))

(***************************************************************************)
(* key.c: asymmetric import                                                *)
(***************************************************************************)
\* the two bad-decrypt signatures of the provider's error queue
ERR_PEM_BAD_DECRYPT == "PEM_F_PEM_DO_HEADER:PEM_R_BAD_DECRYPT"
ERR_EVP_BAD_DECRYPT == "EVP_F_EVP_DECRYPTFINAL_EX:EVP_R_BAD_DECRYPT"
ERR_OTHER == "OTHER"

\* which of its signatures the provider queues first on a failed decryption
ErrVariants == {"evp_first", "pem_first"}

BadDecryptQueue(ev) ==
    IF ev = "evp_first" THEN <<ERR_EVP_BAD_DECRYPT, ERR_PEM_BAD_DECRYPT>>
    ELSE <<ERR_PEM_BAD_DECRYPT>>

\* password_dummy_cb hands the provider a one-byte password holding NUL, which
\* opens no encrypted key; with no callback the provider uses the string u
DummyPassword == "<NUL>"
password_dummy_cb(password) ==
    IF password = NoPassword THEN DummyPassword ELSE password

\* A provider parser returns [alg, private, err]: the algorithm of the key
\* read ("none" on failure), its role, and the error queue it leaves.
ParseOk(blob, private) == [alg |-> blob.alg, private |-> private, err |-> <<>>]
ParseFail(errq) == [alg |-> "none", private |-> FALSE, err |-> errq]

Decrypts(blob, pass) == blob.enc = NoEnc \/ blob.enc = pass

PEM_read_bio_PrivateKey(blob, pass, ev) ==
    IF blob.kind = "asn" /\ blob.armor = "PEM" /\ blob.container \in {"trad", "pkcs8"}
    THEN IF Decrypts(blob, pass) THEN ParseOk(blob, TRUE)
         ELSE ParseFail(IF blob.container = "trad" THEN BadDecryptQueue(ev)
                        ELSE <<ERR_EVP_BAD_DECRYPT, ERR_OTHER>>)
    ELSE ParseFail(<<ERR_OTHER>>)

PEM_read_bio_PUBKEY(blob) ==
    IF blob.kind = "asn" /\ blob.armor = "PEM" /\ blob.container = "pubkey"
    THEN ParseOk(blob, FALSE)
    ELSE ParseFail(<<ERR_OTHER>>)

\* PEM_read_bio_X509 followed by X509_get_pubkey
PEM_read_bio_X509(blob) ==
    IF blob.kind = "asn" /\ blob.armor = "PEM" /\ blob.container = "x509"
    THEN ParseOk(blob, FALSE)
    ELSE ParseFail(<<ERR_OTHER>>)

\* reads an encrypted PKCS#8 structure only
d2i_PKCS8PrivateKey_bio(blob, pass) ==
    IF blob.kind = "asn" /\ blob.armor = "DER" /\ blob.container = "pkcs8"
       /\ blob.enc /= NoEnc
    THEN IF blob.enc = pass THEN ParseOk(blob, TRUE)
         ELSE ParseFail(<<ERR_EVP_BAD_DECRYPT, ERR_OTHER>>)
    ELSE ParseFail(<<ERR_OTHER>>)

\* reads a traditional or an unencrypted PKCS#8 private key
d2i_PrivateKey_bio(blob) ==
    IF blob.kind = "asn" /\ blob.armor = "DER" /\ blob.container \in {"trad", "pkcs8"}
       /\ blob.enc = NoEnc
    THEN ParseOk(blob, TRUE)
    ELSE ParseFail(<<ERR_OTHER>>)

d2i_PUBKEY_bio(blob) ==
    IF blob.kind = "asn" /\ blob.armor = "DER" /\ blob.container = "pubkey"
    THEN ParseOk(blob, FALSE)
    ELSE ParseFail(<<ERR_OTHER>>)

\* variant that knows only the PEM signature
check_import_wrong_pass_pem_only(errq) ==
    LET err == IF errq = <<>> THEN "0" ELSE Head(errq)
    IN  err = ERR_PEM_BAD_DECRYPT

\* ERR_peek_error() is the oldest entry of the error queue
check_import_wrong_pass(errq) ==
    LET err == IF errq = <<>> THEN "0" ELSE Head(errq)
    IN  err = ERR_PEM_BAD_DECRYPT \/ err = ERR_EVP_BAD_DECRYPT

\* "----" at the start of the data
HasPemMarker(blob) ==
    IF blob.kind = "asn" THEN blob.armor = "PEM"
    ELSE Len(blob.d) >= 4 /\ SubSeq(blob.d, 1, 4) = <<45, 45, 45, 45>>

\* data_len; an ASN.1 key structure is never shorter than 12 bytes
BlobLen(blob) == IF blob.kind = "bytes" THEN Len(blob.d) ELSE 12

\* variant that makes every attempt, whatever the earlier ones gave
Attempt_unguarded(st, name, res, latch) ==
    [alg |-> res.alg,
     private |-> res.private,
     wrong_pass |-> st.wrong_pass \/ (latch /\ check_import_wrong_pass(res.err)),
     tried |-> Append(st.tried, name)]

\* One decoding attempt of import_evp: made only while no key was read and
\* the wrong-password signal is not latched. st = [alg, private, wrong_pass, tried]
Attempt(st, name, res, latch) ==
    IF st.alg = "none" /\ ~st.wrong_pass
    THEN [alg |-> res.alg,
          private |-> res.private,
          wrong_pass |-> latch /\ check_import_wrong_pass(res.err),
          tried |-> Append(st.tried, name)]
    ELSE st

ImportAttempts(password, data, ev) ==
    LET pass == password_dummy_cb(password)
        st0 == [alg |-> "none", private |-> FALSE, wrong_pass |-> FALSE, tried |-> <<>>]
    IN  IF HasPemMarker(data)
        THEN Attempt(Attempt(Attempt(st0,
                 "PEM_PrivateKey", PEM_read_bio_PrivateKey(data, pass, ev), TRUE),
                 "PEM_PUBKEY", PEM_read_bio_PUBKEY(data), TRUE),
                 "PEM_X509", PEM_read_bio_X509(data), TRUE)
        ELSE Attempt(Attempt(Attempt(st0,
                 "DER_PKCS8", d2i_PKCS8PrivateKey_bio(data, pass), TRUE),
                 "DER_PrivateKey", d2i_PrivateKey_bio(data), FALSE),
                 "DER_PUBKEY", d2i_PUBKEY_bio(data), FALSE)

\* variant that does not consult the latch
ImportVerdict_unlatched(st) ==
    IF st.alg = "none" THEN YACA_ERROR_INVALID_ARGUMENT ELSE YACA_ERROR_NONE

\* the code import_evp leaves with after the attempts: the latch is tested
\* first, then pkey == NULL; YACA_ERROR_NONE stands for going on
ImportVerdict(st) ==
    IF st.wrong_pass THEN YACA_ERROR_PASSWORD_INVALID
    ELSE IF st.alg = "none" THEN YACA_ERROR_INVALID_ARGUMENT
    ELSE YACA_ERROR_NONE

\* variant that skips the comparison of the parsed type with key_type
TypeMismatch_none(type, key_type) == FALSE

TypeMismatch(type, key_type) == type /= key_type

\* [ret, key, pkeys, mem, tried, wrong_pass, freed]: pkeys are the live backend
\* handles after the call, freed the handle EVP_PKEY_free was given (0: none)
import_evp(key_type, password, data, fault, ev, live) ==
    LET id == FreshId(live)
        Fail(ret, tried, wp, freed) ==
            [ret |-> ret, key |-> KEY_NULL, pkeys |-> live, mem |-> 0,
             tried |-> tried, wrong_pass |-> wp, freed |-> freed]
        TypeOf(st) ==
            IF st.alg = "RSA" THEN (IF st.private THEN "RSA_PRIV" ELSE "RSA_PUB")
            ELSE IF st.alg = "DSA" THEN (IF st.private THEN "DSA_PRIV" ELSE "DSA_PUB")
            ELSE "default"
        Finish(st, type) ==
            IF ImportVerdict(st) /= YACA_ERROR_NONE
            THEN Fail(ImportVerdict(st), st.tried, st.wrong_pass, 0)
            ELSE IF type = "default"
            THEN Fail(YACA_ERROR_INVALID_ARGUMENT, st.tried, FALSE, id)
            ELSE IF TypeMismatch(type, key_type)
            THEN Fail(YACA_ERROR_INVALID_ARGUMENT, st.tried, FALSE, id)
            ELSE IF fault = "oom"
            THEN Fail(YACA_ERROR_OUT_OF_MEMORY, st.tried, FALSE, id)
            ELSE [ret |-> YACA_ERROR_NONE,
                  key |-> EvpKey(type, PKey(st.alg, st.private, id)),
                  pkeys |-> live \cup {id}, mem |-> 1,
                  tried |-> st.tried, wrong_pass |-> FALSE, freed |-> 0]
        Parsed(st) == Finish(st, TypeOf(st))
    IN  IF BlobLen(data) < 4
        THEN Fail(YACA_ERROR_INVALID_ARGUMENT, <<>>, FALSE, 0)
        ELSE IF fault = "internal"       \* BIO_new_mem_buf returns NULL
        THEN Fail(YACA_ERROR_INTERNAL, <<>>, FALSE, 0)
        ELSE Parsed(ImportAttempts(password, data, ev))

\* variant that hands the password on as the caller gave it
NormalizePassword_kept(password) == password

\* the empty string is taken as no password
NormalizePassword(password) == IF password = "" THEN NoPassword ELSE password

\* yaca_key_import; data = NoBlob stands for data == NULL or data_len == 0
yaca_key_import(key_type, password, data, fault, ev, live) ==
    LET pw == NormalizePassword(password)
        Fail(ret) == [ret |-> ret, key |-> KEY_NULL, pkeys |-> live, mem |-> 0,
                      tried |-> <<>>, wrong_pass |-> FALSE, freed |-> 0]
    IN  IF data.kind = "none"
        THEN Fail(YACA_ERROR_INVALID_ARGUMENT)
        ELSE IF key_type \in SimpleTypes
        THEN IF pw /= NoPassword
             THEN Fail(YACA_ERROR_INVALID_ARGUMENT)
             ELSE LET Simple(r) ==
                          [ret |-> r.ret, key |-> r.key, pkeys |-> live, mem |-> r.mem,
                           tried |-> <<>>, wrong_pass |-> FALSE, freed |-> 0]
                  IN  Simple(import_simple(key_type, data.d, fault))
        ELSE IF key_type \in EvpTypes
        THEN import_evp(key_type, pw, data, fault, ev, live)
        ELSE Fail(YACA_ERROR_INVALID_ARGUMENT)

(***************************************************************************)
(* key.c: export                                                           *)
(***************************************************************************)
key_get_simple(k) ==
    IF k.shape = "simple" /\ k.type \in {"SYMMETRIC", "DES", "IV"} THEN k ELSE KEY_NULL

key_get_evp(k) ==
    IF k.shape = "evp" /\ k.type \in {"RSA_PUB", "RSA_PRIV", "DSA_PUB", "DSA_PRIV"}
    THEN k ELSE KEY_NULL

\* An export returns [ret, buf]: buf is what the call stored to (*data,
\* *data_len): BUF_UNSET when nothing was written, st "null" when *data was
\* set to NULL by a failed allocation.
BufNull == [BUF_UNSET EXCEPT !.st = "null"]
BufData(blob) == [BUF_UNSET EXCEPT !.st = "data", !.blob = blob]

export_simple_raw(simple_key, fault) ==
    LET key_len == simple_key.bits \div 8
    IN  IF fault = "oom"
        THEN [ret |-> YACA_ERROR_OUT_OF_MEMORY, buf |-> BufNull]
        ELSE [ret |-> YACA_ERROR_NONE,
              buf |-> BufData(Bytes(SubSeq(simple_key.d, 1, key_len)))]

export_simple_base64(simple_key, fault) ==
    LET key_len == simple_key.bits \div 8
        bio_data == b64_write(SubSeq(simple_key.d, 1, key_len))
    IN  IF fault = "internal"
        THEN [ret |-> YACA_ERROR_INTERNAL, buf |-> BUF_UNSET]
        ELSE IF Len(bio_data) <= 0
        THEN [ret |-> YACA_ERROR_INTERNAL, buf |-> BUF_UNSET]
        ELSE IF fault = "oom"
        THEN [ret |-> YACA_ERROR_OUT_OF_MEMORY, buf |-> BufNull]
        ELSE [ret |-> YACA_ERROR_NONE, buf |-> BufData(Bytes(bio_data))]

\* The provider's writers. PEM_write_bio_RSAPrivateKey/DSAPrivateKey encrypt
\* under password u when a cipher is given; the i2d writers take neither
\* cipher nor password; the PUBKEY writers emit the public part.
PEM_write_bio_PrivateKey_trad(pkey, enc, password) ==
    IF enc = "none" THEN Asn("PEM", "trad", pkey.alg, NoEnc, "none")
    ELSE Asn("PEM", "trad", pkey.alg, password, enc)

i2d_PrivateKey_trad_bio(pkey) == Asn("DER", "trad", pkey.alg, NoEnc, "none")

PEM_write_bio_PUBKEY(pkey) == Asn("PEM", "pubkey", pkey.alg, NoEnc, "none")

i2d_PUBKEY_bio(pkey) == Asn("DER", "pubkey", pkey.alg, NoEnc, "none")

\* PEM_write_bio_PKCS8PrivateKey_nid / i2d_PKCS8PrivateKey_nid_bio: with
\* nid -1 and no cipher the provider writes the unencrypted PrivateKeyInfo
write_PKCS8PrivateKey_nid(armor, pkey, nid, password) ==
    IF nid = "-1" THEN Asn(armor, "pkcs8", pkey.alg, NoEnc, "none")
    ELSE Asn(armor, "pkcs8", pkey.alg, password, nid)

\* [ret, blob]: what was written to the memory BIO
export_evp_default_bio(evp_key, key_file_fmt, password) ==
    LET enc == IF password /= NoPassword THEN "AES-256-CBC" ELSE "none"
        Wrote(blob) == [ret |-> YACA_ERROR_NONE, blob |-> blob]
        Invalid == [ret |-> YACA_ERROR_INVALID_ARGUMENT, blob |-> NoBlob]
    IN  IF key_file_fmt = "PEM"
        THEN IF evp_key.type \in {"RSA_PRIV", "DSA_PRIV"}
             THEN Wrote(PEM_write_bio_PrivateKey_trad(evp_key.evp, enc, password))
             ELSE IF evp_key.type \in {"RSA_PUB", "DSA_PUB"}
             THEN Wrote(PEM_write_bio_PUBKEY(evp_key.evp))
             ELSE Invalid
        ELSE IF key_file_fmt = "DER"
        THEN IF evp_key.type \in {"RSA_PRIV", "DSA_PRIV"}
             THEN Wrote(i2d_PrivateKey_trad_bio(evp_key.evp))
             ELSE IF evp_key.type \in {"RSA_PUB", "DSA_PUB"}
             THEN Wrote(i2d_PUBKEY_bio(evp_key.evp))
             ELSE Invalid
        ELSE Invalid

export_evp_pkcs8_bio(evp_key, key_file_fmt, password) ==
    LET nid == IF password /= NoPassword THEN "pbeWithMD5AndDES-CBC" ELSE "-1"
        Wrote(blob) == [ret |-> YACA_ERROR_NONE, blob |-> blob]
        Invalid == [ret |-> YACA_ERROR_INVALID_ARGUMENT, blob |-> NoBlob]
    IN  IF key_file_fmt \in {"PEM", "DER"}
        THEN IF evp_key.type \in {"RSA_PRIV", "DSA_PRIV"}
             THEN Wrote(write_PKCS8PrivateKey_nid(key_file_fmt, evp_key.evp, nid, password))
             ELSE Invalid
        ELSE Invalid

export_evp(evp_key, key_fmt, key_file_fmt, password, fault) ==
    LET Copy(r) ==
            IF r.ret /= YACA_ERROR_NONE
            THEN [ret |-> r.ret, buf |-> BUF_UNSET]
            ELSE IF fault = "oom"
            THEN [ret |-> YACA_ERROR_OUT_OF_MEMORY, buf |-> BufNull]
            ELSE [ret |-> YACA_ERROR_NONE, buf |-> BufData(r.blob)]
    IN  IF fault = "internal"            \* BIO_new(BIO_s_mem()) returns NULL
        THEN [ret |-> YACA_ERROR_INTERNAL, buf |-> BUF_UNSET]
        ELSE IF key_fmt = "DEFAULT"
        THEN Copy(export_evp_default_bio(evp_key, key_file_fmt, password))
        ELSE IF key_fmt = "PKCS8"
        THEN Copy(export_evp_pkcs8_bio(evp_key, key_file_fmt, password))
        ELSE [ret |-> YACA_ERROR_INVALID_ARGUMENT, buf |-> BUF_UNSET]

\* variant that lets a password through for a Simple key
PasswordOnSimple_allowed(pw, simple_key) == FALSE

PasswordOnSimple(pw, simple_key) == pw /= NoPassword /\ simple_key /= KEY_NULL

yaca_key_export(k, key_fmt, key_file_fmt, password, fault) ==
    LET simple_key == key_get_simple(k)
        evp_key == key_get_evp(k)
        pw == NormalizePassword(password)
    IN  IF PasswordOnSimple(pw, simple_key)
        THEN [ret |-> YACA_ERROR_INVALID_ARGUMENT, buf |-> BUF_UNSET]
        ELSE IF key_fmt = "DEFAULT" /\ key_file_fmt = "RAW" /\ simple_key /= KEY_NULL
        THEN export_simple_raw(simple_key, fault)
        ELSE IF key_fmt = "DEFAULT" /\ key_file_fmt = "BASE64" /\ simple_key /= KEY_NULL
        THEN export_simple_base64(simple_key, fault)
        ELSE IF evp_key /= KEY_NULL
        THEN export_evp(evp_key, key_fmt, key_file_fmt, pw, fault)
        ELSE [ret |-> YACA_ERROR_INVALID_ARGUMENT, buf |-> BUF_UNSET]

(***************************************************************************)
(* key.c: generation                                                       *)
(***************************************************************************)
\* [ret, key, pkeys, mem]; b is the byte the random source delivers
gen_simple(key_bits, b, fault, live) ==
    LET key_byte_len == key_bits \div 8
    IN  IF fault = "oom"
        THEN [ret |-> YACA_ERROR_OUT_OF_MEMORY, key |-> KEY_NULL, pkeys |-> live, mem |-> 0]
        ELSE IF fault = "internal"       \* yaca_rand_bytes fails: nk is not freed
        THEN [ret |-> YACA_ERROR_INTERNAL, key |-> KEY_NULL, pkeys |-> live, mem |-> 1]
        ELSE [ret |-> YACA_ERROR_NONE,
              key |-> SimpleKey("unset", key_bits, Fill(b, key_byte_len)),
              pkeys |-> live, mem |-> 1]

\* variant that checks only that whole DES blocks are requested
DesBitsLegal_blocks(key_bits) == key_bits % YACA_KEY_UNSAFE_64BIT = 0

DesBitsLegal(key_bits) ==
    ~(key_bits /= YACA_KEY_UNSAFE_64BIT /\ key_bits /= YACA_KEY_UNSAFE_128BIT
      /\ key_bits /= YACA_KEY_192BIT)

gen_simple_des(key_bits, b, fault, live) ==
    LET key_byte_len == key_bits \div 8
    IN  IF ~DesBitsLegal(key_bits)
        THEN [ret |-> YACA_ERROR_INVALID_ARGUMENT, key |-> KEY_NULL, pkeys |-> live, mem |-> 0]
        ELSE IF fault = "oom"
        THEN [ret |-> YACA_ERROR_OUT_OF_MEMORY, key |-> KEY_NULL, pkeys |-> live, mem |-> 0]
        ELSE IF fault = "internal"       \* DES_random_key fails: nk is freed
        THEN [ret |-> YACA_ERROR_INTERNAL, key |-> KEY_NULL, pkeys |-> live, mem |-> 0]
        ELSE [ret |-> YACA_ERROR_NONE,
              key |-> SimpleKey("unset", key_bits, Fill(b, key_byte_len)),
              pkeys |-> live, mem |-> 1]

\* eh is the code ERROR_HANDLE() maps the provider's refusal of the size to
gen_evp_rsa(key_bits, fault, eh, live) ==
    LET id == FreshId(live)
    IN  IF fault = "oom"
        THEN [ret |-> YACA_ERROR_OUT_OF_MEMORY, key |-> KEY_NULL, pkeys |-> live, mem |-> 0]
        ELSE IF fault = "internal"
        THEN [ret |-> YACA_ERROR_INTERNAL, key |-> KEY_NULL, pkeys |-> live, mem |-> 0]
        ELSE IF key_bits < 256           \* EVP_PKEY_CTX_set_rsa_keygen_bits refuses
        THEN [ret |-> eh, key |-> KEY_NULL, pkeys |-> live, mem |-> 0]
        ELSE [ret |-> YACA_ERROR_NONE,
              key |-> EvpKey("unset", PKey("RSA", TRUE, id)),
              pkeys |-> live \cup {id}, mem |-> 1]

gen_evp_dsa(key_bits, fault, live) ==
    LET id == FreshId(live)
    IN  IF key_bits < 512 \/ key_bits % 64 /= 0
        THEN [ret |-> YACA_ERROR_INVALID_ARGUMENT, key |-> KEY_NULL, pkeys |-> live, mem |-> 0]
        ELSE IF fault = "oom"
        THEN [ret |-> YACA_ERROR_OUT_OF_MEMORY, key |-> KEY_NULL, pkeys |-> live, mem |-> 0]
        ELSE IF fault = "internal"
        THEN [ret |-> YACA_ERROR_INTERNAL, key |-> KEY_NULL, pkeys |-> live, mem |-> 0]
        ELSE [ret |-> YACA_ERROR_NONE,
              key |-> EvpKey("unset", PKey("DSA", TRUE, id)),
              pkeys |-> live \cup {id}, mem |-> 1]

yaca_key_gen(key_type, key_bits, b, fault, eh, live) ==
    LET Invalid == [ret |-> YACA_ERROR_INVALID_ARGUMENT, key |-> KEY_NULL,
                    pkeys |-> live, mem |-> 0]
        Tag(r) == IF r.ret /= YACA_ERROR_NONE
                  THEN r
                  ELSE [r EXCEPT !.key = [r.key EXCEPT !.type = key_type]]
    IN  IF key_bits = 0 \/ key_bits % 8 /= 0
        THEN Invalid
        ELSE IF key_type \in {"SYMMETRIC", "IV"} THEN Tag(gen_simple(key_bits, b, fault, live))
        ELSE IF key_type = "DES" THEN Tag(gen_simple_des(key_bits, b, fault, live))
        ELSE IF key_type = "RSA_PRIV" THEN Tag(gen_evp_rsa(key_bits, fault, eh, live))
        ELSE IF key_type = "DSA_PRIV" THEN Tag(gen_evp_dsa(key_bits, fault, live))
        ELSE Invalid

\* yaca_key_free: [pkeys, mem] after the call
yaca_key_free(k, live, blocks) ==
    IF key_get_simple(k) /= KEY_NULL
    THEN [pkeys |-> live, mem |-> blocks - 1]
    ELSE IF key_get_evp(k) /= KEY_NULL
    THEN [pkeys |-> live \ {k.evp.id}, mem |-> blocks - 1]
    ELSE [pkeys |-> live, mem |-> blocks]

(***************************************************************************)
(* key.c: public-key extraction and password-based derivation              *)
(***************************************************************************)
\* variant that hands out the private key's own backend object
ExtractedHandle_aliased(evp, res, live) == [evp EXCEPT !.private = FALSE]

\* the object d2i_PUBKEY_bio builds from what i2d_PUBKEY_bio wrote
ExtractedHandle(evp, res, live) == PKey(res.alg, res.private, FreshId(live))

\* [ret, key, pkeys, mem]: the value stored to *pub_key, the live backend
\* handles and the blocks the call leaves allocated
yaca_key_extract_public(prv_key, fault, live) ==
    LET evp_key == key_get_evp(prv_key)
        Fail(ret) == [ret |-> ret, key |-> KEY_NULL, pkeys |-> live, mem |-> 0]
        Tagged(type, pkey) ==
            [ret |-> YACA_ERROR_NONE, key |-> EvpKey(type, pkey),
             pkeys |-> live \cup {pkey.id}, mem |-> 1]
        Read(res) ==
            IF res.alg = "none"
            THEN Fail(YACA_ERROR_INTERNAL)
            ELSE IF prv_key.type = "RSA_PRIV"
            THEN Tagged("RSA_PUB", ExtractedHandle(evp_key.evp, res, live))
            ELSE IF prv_key.type = "DSA_PRIV"
            THEN Tagged("DSA_PUB", ExtractedHandle(evp_key.evp, res, live))
            ELSE Fail(YACA_ERROR_INVALID_ARGUMENT)  \* pkey and nk are freed at exit
    IN  IF prv_key = KEY_NULL \/ evp_key = KEY_NULL
        THEN Fail(YACA_ERROR_INVALID_ARGUMENT)
        ELSE IF fault = "oom"
        THEN Fail(YACA_ERROR_OUT_OF_MEMORY)
        ELSE IF fault = "internal"       \* BIO_new or i2d_PUBKEY_bio fails
        THEN Fail(YACA_ERROR_INTERNAL)
        ELSE Read(d2i_PUBKEY_bio(i2d_PUBKEY_bio(evp_key.evp)))

DigestAlgos == {"MD5", "SHA256", "INVALID"}

\* [ret, md]
digest_get_algorithm(algo) ==
    IF algo \in {"MD5", "SHA256"}
    THEN [ret |-> YACA_ERROR_NONE, md |-> algo]
    ELSE [ret |-> YACA_ERROR_INVALID_ARGUMENT, md |-> "none"]

\* The provider's derivation: it takes the password by strlen (the empty
\* string is a password of length 0) and runs its rounds as
\* for (j = 1; j < iter; j++), so any iter below 2 is one round. The derived
\* bytes stand for a function of the salt length and the rounds.
PKCS5_PBKDF2_HMAC(password, salt_len, iter, md, key_byte_len) ==
    LET rounds == IF iter < 1 THEN 1 ELSE iter
    IN  Fill(salt_len + rounds, key_byte_len)

BadIterations(iter) == iter = 0

\* [ret, key, mem]; salt is a pointer ("NULL" or "buf")
yaca_key_derive_pbkdf2(password, salt, salt_len, iter, algo, key_bits, fault) ==
    LET key_byte_len == key_bits \div 8
        Fail(ret) == [ret |-> ret, key |-> KEY_NULL, mem |-> 0]
        Derive(alg) ==
            IF alg.ret /= YACA_ERROR_NONE
            THEN Fail(alg.ret)
            ELSE IF fault = "oom"
            THEN Fail(YACA_ERROR_OUT_OF_MEMORY)
            ELSE IF fault = "internal"   \* PKCS5_PBKDF2_HMAC fails: nk is freed
            THEN Fail(YACA_ERROR_INTERNAL)
            ELSE [ret |-> YACA_ERROR_NONE,
                  key |-> SimpleKey("SYMMETRIC", key_bits,
                                    PKCS5_PBKDF2_HMAC(password, salt_len, iter, alg.md,
                                                      key_byte_len)),
                  mem |-> 1]
    IN  IF password = NoPassword \/ salt = "NULL" \/ salt_len = 0
           \/ BadIterations(iter) \/ key_bits = 0
        THEN Fail(YACA_ERROR_INVALID_ARGUMENT)
        ELSE IF key_bits % 8 /= 0
        THEN Fail(YACA_ERROR_INVALID_ARGUMENT)
        ELSE Derive(digest_get_algorithm(algo))

\* the result code of a call that did not return: the process was stopped
\* by a fault (an access past a buffer, a call through a null pointer)
PROCESS_ABORTED == "PROCESS_ABORTED"

\* what the build makes of an access outside an object: the call carries on
\* and returns, or the process is stopped
UbOutcomes == {"returns", "aborts"}

(***************************************************************************)
(* seal.c: RSA envelope contexts                                           *)
(***************************************************************************)
OP_SEAL == "OP_SEAL"
OP_OPEN == "OP_OPEN"

\* struct yaca_seal_ctx_s: the tagged base, the backend cipher context (by
\* its state: "init", "updated", "final", "failed") and the operation the
\* context was created for
SealCtx(op_type, cipher_ctx) ==
    [type |-> "SEAL", op_type |-> op_type, cipher_ctx |-> cipher_ctx]

get_seal_ctx(h) == IF h.type = "SEAL" THEN h ELSE CTX_NULL

NO_ENVELOPE == [sym_key |-> KEY_NULL, iv |-> KEY_NULL]

\* The client's round trip: the step it is at, the cipher, the plaintext it
\* sealed, the ciphertext it got, the tag the sealing backend state holds
\* (ctx_tag), the tag the client read (tag) and the tag it gave to the
\* opening context (tag_set), the ciphertext bytes fed to open, the
\* plaintext it got back, and the first call that failed.
NO_WIRE ==
    [step |-> "start", algo |-> "none", plain |-> <<>>, sealed |-> <<>>,
     ctx_tag |-> "none", tag |-> "none", tag_set |-> "none", fed |-> 0,
     opened |-> <<>>, failed |-> "none"]

\* The provider's cipher on the stream, by what it returns: a ciphertext
\* byte for each plaintext byte, a closing block from the final call of a
\* padded mode (0 stands for it), and a tag kept in the backend state of an
\* AEAD mode.
EVP_SealUpdate(data) == [i \in 1..Len(data) |-> 0 - data[i]]

EVP_SealFinal(cipher) == IF cipher = "AES_CBC" THEN <<0>> ELSE <<>>

EVP_OpenUpdate(data) ==
    LET plain == [i \in 1..Len(data) |-> 0 - data[i]]
    IN  SelectSeq(plain, LAMBDA b : b /= 0)

\* EVP_OpenFinal succeeds on a whole stream whose tag, in an AEAD mode, was
\* given to the context
EVP_OpenFinal(w) ==
    /\ w.fed = Len(w.sealed)
    /\ w.algo = "AES_GCM" => w.tag_set /= "none" /\ w.tag_set = w.ctx_tag

\* the cipher selection of seal_init/open_init: a backend cipher or
\* YACA_ERROR_INVALID_ARGUMENT
Algos == {"AES_CBC", "AES_GCM", "AES_ECB", "INVALID"}
encrypt_get_algorithm(algo) ==
    IF algo = "INVALID"
    THEN [ret |-> YACA_ERROR_INVALID_ARGUMENT, cipher |-> "none"]
    ELSE [ret |-> YACA_ERROR_NONE, cipher |-> algo]

EVP_CIPHER_iv_length(cipher) ==
    IF cipher = "AES_CBC" THEN 16 ELSE IF cipher = "AES_GCM" THEN 12 ELSE 0

\* bytes of the RSA modulus of the model's key pair
EVP_PKEY_size(pkey) == 8

yaca_key_get_bits(k) ==
    IF key_get_simple(k) /= KEY_NULL
    THEN [ret |-> YACA_ERROR_NONE, bits |-> k.bits]
    ELSE IF key_get_evp(k) /= KEY_NULL
    THEN [ret |-> YACA_ERROR_NONE, bits |-> EVP_PKEY_size(k.evp) * 8]
    ELSE [ret |-> YACA_ERROR_INVALID_ARGUMENT, bits |-> 0]

\* variant that accepts either half of an RSA pair
NotRecipientType_any_rsa(k, type) == k.type \notin {"RSA_PUB", "RSA_PRIV"}

\* the recipient key is not tagged with the one type the call takes
NotRecipientType(k, type) == k.type /= type

\* variant that leaves the length of the IV to the provider
IvLengthMismatch_ignored(iv_bits, iv_bits_check) == FALSE

IvLengthMismatch(iv_bits, iv_bits_check) == iv_bits /= iv_bits_check

\* [ret, ctx, sym_key, iv, mem, cctxs]: the values stored to *ctx, *sym_key
\* and *iv, the blocks and backend cipher contexts the call leaves allocated
seal_init(pub_key, algo, fault) ==
    LET Fail(ret) == [ret |-> ret, ctx |-> CTX_NULL, sym_key |-> KEY_NULL,
                      iv |-> KEY_NULL, mem |-> 0, cctxs |-> 0]
        Sealed(key_data_length, iv_length) ==
            [ret |-> YACA_ERROR_NONE,
             ctx |-> SealCtx(OP_SEAL, "init"),
             sym_key |-> SimpleKey("SYMMETRIC", key_data_length * 8, Fill(0, key_data_length)),
             iv |-> SimpleKey("IV", iv_length * 8, Fill(0, iv_length)),
             mem |-> 3, cctxs |-> 1]
        WithCipher(alg) ==
            IF alg.ret /= YACA_ERROR_NONE THEN Fail(alg.ret)
            ELSE Sealed(EVP_PKEY_size(pub_key.evp), EVP_CIPHER_iv_length(alg.cipher))
    IN  IF pub_key = KEY_NULL
        THEN Fail(YACA_ERROR_INVALID_ARGUMENT)
        ELSE IF NotRecipientType(pub_key, "RSA_PUB")
        THEN Fail(YACA_ERROR_INVALID_ARGUMENT)
        ELSE IF fault = "oom"
        THEN Fail(YACA_ERROR_OUT_OF_MEMORY)
        ELSE IF fault = "internal"       \* EVP_CIPHER_CTX_new returns NULL
        THEN Fail(YACA_ERROR_INTERNAL)
        ELSE WithCipher(encrypt_get_algorithm(algo))

\* the bytes EVP_OpenInit reads at lkey->d reach past the key's buffer
WrappedKeyOverread(ekl, lkey) == ekl > Len(lkey.d)

\* [ret, ctx, mem, cctxs, ekl]; ekl is the wrapped-key length handed to
\* EVP_OpenInit (0 when the call is not reached).  EVP_OpenInit reads ekl
\* bytes at lkey->d: past the end of a shorter buffer the read either stops
\* the process or delivers bytes that do not unwrap.
open_init(prv_key, algo, sym_key, iv, fault, ub) ==
    LET Fail(ret) == [ret |-> ret, ctx |-> CTX_NULL, mem |-> 0, cctxs |-> 0, ekl |-> 0]
        lkey == key_get_simple(sym_key)
        liv == key_get_simple(iv)
        Unwrap(ekl) ==
            IF WrappedKeyOverread(ekl, lkey)
            THEN [ret |-> IF ub = "aborts" THEN PROCESS_ABORTED ELSE YACA_ERROR_INTERNAL,
                  ctx |-> CTX_NULL, mem |-> 0, cctxs |-> 0, ekl |-> ekl]
            ELSE [ret |-> YACA_ERROR_NONE, ctx |-> SealCtx(OP_OPEN, "init"),
                  mem |-> 1, cctxs |-> 1, ekl |-> ekl]
        WithIv(iv_bits, check) ==
            IF iv_bits = 0 /\ iv /= KEY_NULL
            THEN Fail(YACA_ERROR_INVALID_ARGUMENT)
            ELSE IF iv_bits /= 0 /\ (liv = KEY_NULL \/ liv.type /= "IV")
            THEN Fail(YACA_ERROR_INVALID_ARGUMENT)
            ELSE IF check.ret /= YACA_ERROR_NONE
            THEN Fail(YACA_ERROR_INVALID_ARGUMENT)
            ELSE IF IvLengthMismatch(iv_bits, check.bits)
            THEN Fail(YACA_ERROR_INVALID_ARGUMENT)
            ELSE IF fault = "internal"   \* EVP_CIPHER_CTX_new returns NULL
            THEN Fail(YACA_ERROR_INTERNAL)
            ELSE Unwrap(EVP_PKEY_size(prv_key.evp))
        WithCipher(alg) ==
            IF alg.ret /= YACA_ERROR_NONE THEN Fail(alg.ret)
            ELSE WithIv(EVP_CIPHER_iv_length(alg.cipher) * 8, yaca_key_get_bits(iv))
    IN  IF prv_key = KEY_NULL \/ sym_key = KEY_NULL
        THEN Fail(YACA_ERROR_INVALID_ARGUMENT)
        ELSE IF NotRecipientType(prv_key, "RSA_PRIV")
        THEN Fail(YACA_ERROR_INVALID_ARGUMENT)
        ELSE IF lkey = KEY_NULL \/ lkey.type /= "SYMMETRIC"
        THEN Fail(YACA_ERROR_INVALID_ARGUMENT)
        ELSE IF fault = "oom"
        THEN Fail(YACA_ERROR_OUT_OF_MEMORY)
        ELSE WithCipher(encrypt_get_algorithm(algo))

\* variant that does not compare the operation with the context's
OpTypeMismatch_ignored(op_type, c) == FALSE

OpTypeMismatch(op_type, c) == op_type /= c.op_type

\* the backend call each operation forwards to
UpdateCall(op_type) == IF op_type = OP_SEAL THEN "EVP_SealUpdate" ELSE "EVP_OpenUpdate"
FinalCall(op_type) == IF op_type = OP_SEAL THEN "EVP_SealFinal" ELSE "EVP_OpenFinal"

\* A pointer argument is "NULL" or "buf". [ret, calls, ctx]: the backend calls
\* made and the context after the call
seal_update(h, input, input_len, output, output_len, op_type, fault) ==
    LET Forward(c) ==
            IF c = CTX_NULL \/ input = "NULL" \/ input_len = 0
               \/ output = "NULL" \/ output_len = "NULL" \/ OpTypeMismatch(op_type, c)
            THEN [ret |-> YACA_ERROR_INVALID_ARGUMENT, calls |-> <<>>, ctx |-> h]
            ELSE IF fault = "internal"
            THEN [ret |-> YACA_ERROR_INTERNAL, calls |-> <<UpdateCall(op_type)>>,
                  ctx |-> [c EXCEPT !.cipher_ctx = "failed"]]
            ELSE [ret |-> YACA_ERROR_NONE, calls |-> <<UpdateCall(op_type)>>,
                  ctx |-> [c EXCEPT !.cipher_ctx = "updated"]]
    IN  Forward(get_seal_ctx(h))

seal_final(h, output, output_len, op_type, fault) ==
    LET Forward(c) ==
            IF c = CTX_NULL \/ output = "NULL" \/ output_len = "NULL"
               \/ OpTypeMismatch(op_type, c)
            THEN [ret |-> YACA_ERROR_INVALID_ARGUMENT, calls |-> <<>>, ctx |-> h]
            ELSE IF fault = "internal"
            THEN [ret |-> YACA_ERROR_INTERNAL, calls |-> <<FinalCall(op_type)>>,
                  ctx |-> [c EXCEPT !.cipher_ctx = "failed"]]
            ELSE [ret |-> YACA_ERROR_NONE, calls |-> <<FinalCall(op_type)>>,
                  ctx |-> [c EXCEPT !.cipher_ctx = "final"]]
    IN  Forward(get_seal_ctx(h))

yaca_seal_update(h, plain, plain_len, cipher, cipher_len, fault) ==
    seal_update(h, plain, plain_len, cipher, cipher_len, OP_SEAL, fault)

yaca_seal_final(h, cipher, cipher_len, fault) ==
    seal_final(h, cipher, cipher_len, OP_SEAL, fault)

yaca_open_update(h, cipher, cipher_len, plain, plain_len, fault) ==
    seal_update(h, cipher, cipher_len, plain, plain_len, OP_OPEN, fault)

yaca_open_final(h, plain, plain_len, fault) ==
    seal_final(h, plain, plain_len, OP_OPEN, fault)

\* yaca_ctx_free with destroy_seal_ctx: [mem, cctxs] after the call
yaca_ctx_free(h, blocks, live_cctxs) ==
    IF h = CTX_NULL THEN [mem |-> blocks, cctxs |-> live_cctxs]
    ELSE IF get_seal_ctx(h) /= CTX_NULL
    THEN [mem |-> blocks - 1, cctxs |-> live_cctxs - 1]
    ELSE [mem |-> blocks - 1, cctxs |-> live_cctxs]

(***************************************************************************)
(* digest.c: streaming digest contexts                                     *)
(***************************************************************************)
\* struct yaca_digest_ctx_s: the tagged base, the algorithm and the backend
\* digest state ("init", "updated", "final", "failed")
DigestCtx(md, mdctx) == [type |-> "DIGEST", md |-> md, mdctx |-> mdctx]

get_digest_ctx(h) == IF h.type = "DIGEST" THEN h ELSE CTX_NULL

\* bytes of a digest of the algorithm
EVP_MD_size(md) == IF md = "MD5" THEN 16 ELSE 32

\* [ret, ctx, mem, mdctxs]
yaca_digest_initialize(algo, fault) ==
    LET Fail(ret) == [ret |-> ret, ctx |-> CTX_NULL, mem |-> 0, mdctxs |-> 0]
        WithMd(alg) ==
            IF alg.ret /= YACA_ERROR_NONE
            THEN Fail(alg.ret)           \* nc is destroyed at exit
            ELSE IF fault = "internal"   \* EVP_MD_CTX_create or EVP_DigestInit fails
            THEN Fail(YACA_ERROR_INTERNAL)
            ELSE [ret |-> YACA_ERROR_NONE, ctx |-> DigestCtx(alg.md, "init"),
                  mem |-> 1, mdctxs |-> 1]
    IN  IF fault = "oom"
        THEN Fail(YACA_ERROR_OUT_OF_MEMORY)
        ELSE WithMd(digest_get_algorithm(algo))

\* [ret, calls, ctx]
yaca_digest_update(h, data, data_len, fault) ==
    LET Forward(c) ==
            IF c = CTX_NULL \/ data = "NULL" \/ data_len = 0
            THEN [ret |-> YACA_ERROR_INVALID_ARGUMENT, calls |-> <<>>, ctx |-> h]
            ELSE IF fault = "internal"
            THEN [ret |-> YACA_ERROR_INTERNAL, calls |-> <<"EVP_DigestUpdate">>,
                  ctx |-> [c EXCEPT !.mdctx = "failed"]]
            ELSE [ret |-> YACA_ERROR_NONE, calls |-> <<"EVP_DigestUpdate">>,
                  ctx |-> [c EXCEPT !.mdctx = "updated"]]
    IN  Forward(get_digest_ctx(h))

\* the test made on *digest_len; lengths above UINT_MAX are beyond the
\* integers of the model
DigestBufferRefused(len, md) == len = 0

\* digest and digest_len are pointers, len is *digest_len on entry.
\* [ret, calls, ctx, written, len]: written are the bytes stored to digest,
\* len is *digest_len on return. EVP_DigestFinal_ex stores a whole digest
\* whatever the size of the buffer.
yaca_digest_finalize(h, digest, digest_len, len, fault, ub) ==
    LET Forward(c) ==
            IF c = CTX_NULL \/ digest = "NULL" \/ digest_len = "NULL"
            THEN [ret |-> YACA_ERROR_INVALID_ARGUMENT, calls |-> <<>>, ctx |-> h,
                  written |-> 0, len |-> len]
            ELSE IF DigestBufferRefused(len, c.md)
            THEN [ret |-> YACA_ERROR_INVALID_ARGUMENT, calls |-> <<>>, ctx |-> h,
                  written |-> 0, len |-> len]
            ELSE IF fault = "internal"
            THEN [ret |-> YACA_ERROR_INTERNAL, calls |-> <<"EVP_DigestFinal_ex">>,
                  ctx |-> [c EXCEPT !.mdctx = "failed"], written |-> 0, len |-> len]
            ELSE IF len < EVP_MD_size(c.md) /\ ub = "aborts"
            THEN [ret |-> PROCESS_ABORTED, calls |-> <<"EVP_DigestFinal_ex">>,
                  ctx |-> [c EXCEPT !.mdctx = "final"],
                  written |-> EVP_MD_size(c.md), len |-> len]
            ELSE [ret |-> YACA_ERROR_NONE, calls |-> <<"EVP_DigestFinal_ex">>,
                  ctx |-> [c EXCEPT !.mdctx = "final"],
                  written |-> EVP_MD_size(c.md), len |-> EVP_MD_size(c.md)]
    IN  Forward(get_digest_ctx(h))

(***************************************************************************)
(* crypto.c: the generic context, its capability slots and dispatchers     *)
(***************************************************************************)
\* the function a slot of struct yaca_context_s holds; the initialisers
\* fill two slots of a zeroed block
Slot(h, name) ==
    IF h.type = "DIGEST"
    THEN IF name = "ctx_destroy" THEN "destroy_digest_context"
         ELSE IF name = "get_output_length" THEN "get_digest_output_length"
         ELSE "NULL"
    ELSE IF h.type = "SEAL"
    THEN IF name = "ctx_destroy" THEN "destroy_seal_ctx"
         ELSE IF name = "get_output_length" THEN "get_seal_output_length"
         ELSE "NULL"
    ELSE "NULL"

EVP_CIPHER_CTX_block_size(cipher_ctx) == 16

\* [ret, out]: out is the value stored to *output_len (-1: nothing stored)
get_digest_output_length(h, input_len, fault) ==
    LET Size(c) ==
            IF c = CTX_NULL
            THEN [ret |-> YACA_ERROR_INVALID_ARGUMENT, out |-> -1]
            ELSE IF fault = "internal"   \* EVP_MD_CTX_size(c->mdctx) <= 0
            THEN [ret |-> YACA_ERROR_INTERNAL, out |-> -1]
            ELSE [ret |-> YACA_ERROR_NONE, out |-> EVP_MD_size(c.md)]
    IN  Size(get_digest_ctx(h))

get_seal_output_length(h, input_len, fault) ==
    LET Size(nc, block_size) ==
            IF nc = CTX_NULL
            THEN [ret |-> YACA_ERROR_INVALID_ARGUMENT, out |-> -1]
            ELSE IF fault = "internal"   \* EVP_CIPHER_CTX_block_size <= 0
            THEN [ret |-> YACA_ERROR_INTERNAL, out |-> -1]
            ELSE IF input_len > 0
            THEN [ret |-> YACA_ERROR_NONE, out |-> block_size + input_len - 1]
            ELSE [ret |-> YACA_ERROR_NONE, out |-> block_size]
    IN  Size(get_seal_ctx(h), EVP_CIPHER_CTX_block_size(h))

\* a call through a slot: [ret, out, calls]. A call through a null pointer
\* stops the process.
CallSlot(fn, h, input_len, fault) ==
    LET Called(r) == [ret |-> r.ret, out |-> r.out, calls |-> <<fn>>]
    IN  IF fn = "get_digest_output_length"
        THEN Called(get_digest_output_length(h, input_len, fault))
        ELSE IF fn = "get_seal_output_length"
        THEN Called(get_seal_output_length(h, input_len, fault))
        ELSE [ret |-> PROCESS_ABORTED, out |-> -1, calls |-> <<fn>>]

\* variant that calls through the slot without looking at it
SlotUnset_unchecked(h, name) == FALSE

SlotUnset(h, name) == Slot(h, name) = "NULL"

yaca_context_set_property(h, property, value, value_len, fault) ==
    IF h = CTX_NULL \/ SlotUnset(h, "set_property")
    THEN [ret |-> YACA_ERROR_INVALID_ARGUMENT, out |-> -1, calls |-> <<>>]
    ELSE CallSlot(Slot(h, "set_property"), h, value_len, fault)

yaca_context_get_property(h, property, value, value_len, fault) ==
    IF h = CTX_NULL \/ SlotUnset(h, "get_property")
    THEN [ret |-> YACA_ERROR_INVALID_ARGUMENT, out |-> -1, calls |-> <<>>]
    ELSE CallSlot(Slot(h, "get_property"), h, 0, fault)

yaca_context_get_output_length(h, input_len, output_len, fault) ==
    IF h = CTX_NULL \/ output_len = "NULL" \/ SlotUnset(h, "get_output_length")
    THEN [ret |-> YACA_ERROR_INVALID_ARGUMENT, out |-> -1, calls |-> <<>>]
    ELSE CallSlot(Slot(h, "get_output_length"), h, input_len, fault)

\* variant that releases the block and leaves the backend state behind
DestroySteps_block_only(h) == <<"yaca_free">>

\* what yaca_context_destroy does with a context, in order
DestroySteps(h) == <<Slot(h, "ctx_destroy"), "yaca_free">>

\* the backend object a teardown function releases
Released(fn, kind) ==
    IF (fn = "destroy_digest_context" /\ kind = "mdctx")
       \/ (fn = "destroy_seal_ctx" /\ kind = "cipher_ctx")
    THEN 1 ELSE 0

\* [calls, mem, cctxs, mdctxs]: the calls made and the live blocks and
\* backend objects after the call
yaca_context_destroy(h, blocks, live_cctxs, live_mdctxs) ==
    LET Count(steps, kind) ==
            Cardinality({i \in DOMAIN steps : Released(steps[i], kind) = 1})
        Run(steps) ==
            [calls |-> steps,
             mem |-> blocks - Cardinality({i \in DOMAIN steps : steps[i] = "yaca_free"}),
             cctxs |-> live_cctxs - Count(steps, "cipher_ctx"),
             mdctxs |-> live_mdctxs - Count(steps, "mdctx")]
    IN  IF h /= CTX_NULL
        THEN Run(DestroySteps(h))
        ELSE [calls |-> <<>>, mem |-> blocks, cctxs |-> live_cctxs,
              mdctxs |-> live_mdctxs]

(***************************************************************************)
(* crypto.c: per-process initialization (OpenSSL < 1.1.0, SYS_getrandom    *)
(* defined).  The statics of crypto.c keep their names; rand_method is the *)
(* provider's random method in force, algorithms its digest and cipher     *)
(* tables, locking_callback the callback installed in the provider.        *)
(***************************************************************************)
Workers == 1..NumWorkers

\* the state before the first call; pc is each worker's position in its
\* call, ret the code its last yaca_initialize returned, ev the last step
NO_LIB ==
    [threads_cnt |-> 0,
     current_thread_initialized |-> [w \in Workers |-> FALSE],
     init_mutex |-> 0,
     saved_rand_method |-> "NULL",
     rand_method |-> "default",
     algorithms |-> FALSE,
     mutexes |-> "NULL",
     locking_callback |-> "NULL",
     pc |-> [w \in Workers |-> "idle"],
     ret |-> [w \in Workers |-> YACA_ERROR_NONE],
     ev |-> [op |-> "none", w |-> 0, what |-> "none"]]

\* variant that tests the shared counter in place of the thread's own flag
current_thread_initialized_shared(l, w) == l.threads_cnt > 0

\* the __thread flag as the calling thread reads it
current_thread_initialized(l, w) == l.current_thread_initialized[w]

\* the block of yaca_initialize under threads_cnt == 0: [ret, lib].  "oom"
\* fails yaca_malloc of the lock array, "internal" fails a
\* pthread_mutex_init (destroy_mutexes then frees the array); both leave
\* through exit with what was done before them in place.
OneTimeSetup(l, fault) ==
    LET Randomized(s) ==
            IF fault = "oom"
            THEN [ret |-> YACA_ERROR_OUT_OF_MEMORY, lib |-> s]
            ELSE IF fault = "internal"
            THEN [ret |-> YACA_ERROR_INTERNAL, lib |-> s]
            ELSE [ret |-> YACA_ERROR_NONE,
                  lib |-> [s EXCEPT !.mutexes = "allocated",
                                    !.locking_callback = "locking_callback"]]
    IN  Randomized([l EXCEPT !.saved_rand_method = l.rand_method,
                             !.rand_method = "new_rand_method",
                             !.algorithms = TRUE])

\* the block of yaca_cleanup under threads_cnt == 1
LastTeardown(l) ==
    [l EXCEPT !.algorithms = FALSE,
              !.rand_method = l.saved_rand_method,
              !.locking_callback = "NULL",
              !.mutexes = "NULL"]

(***************************************************************************)
(* The client of the key API: it holds one key handle and one export       *)
(* buffer, fills the handle by import or generation, exports the key into  *)
(* the buffer, may import the buffer back, and releases both.              *)
(***************************************************************************)
NoCall ==
    [op |-> "none", ret |-> YACA_ERROR_NONE, fault |-> "none",
     key_type |-> "none", password |-> NoPassword, data |-> NoBlob,
     key_fmt |-> "none", key_file_fmt |-> "none", key_bits |-> 0,
     key_in |-> KEY_NULL, key_out |-> KEY_NULL, buf_out |-> BUF_UNSET,
     buf_in |-> BUF_UNSET,
     tried |-> <<>>, wrong_pass |-> FALSE, freed |-> 0, leaked |-> 0,
     ctx_in |-> CTX_NULL, algo |-> "none", args_ok |-> TRUE, calls |-> <<>>,
     ev |-> "none", live |-> {}, handle |-> "none",
     sym_key_in |-> KEY_NULL, iv_in |-> KEY_NULL, allocs |-> 0, ekl |-> 0,
     digest |-> "NULL", digest_len |-> "NULL", len_in |-> 0, len_out |-> 0,
     written |-> 0, ub |-> "returns", property |-> "none",
     input_len |-> 0, output_len |-> "NULL", out |-> -1,
     salt |-> "NULL", salt_len |-> 0, iter |-> 0]

\* byte strings offered to import: every string up to MaxDataLen, strings of
\* the DES key lengths (raw and base64), and garbage behind a PEM marker
DesLengths == {8, 16, 24, 32}
ByteData ==
    {Bytes(d) : d \in ByteSeqs(MaxDataLen) \ {<<>>}}
    \cup {Bytes(Fill(b, n)) : b \in {0, 65}, n \in DesLengths}
    \cup {Bytes(Fill(65, 11) \o <<61>>), Bytes(Fill(65, 10) \o <<61, 61>>)}


\* key structures offered to import, as the provider's tools write them
AsnData ==
    {Asn(armor, c, alg, NoEnc, "none") :
        armor \in {"PEM", "DER"}, c \in {"trad", "pkcs8", "pubkey", "x509"},
        alg \in {"RSA", "DSA", "EC"}}
    \cup {Asn("PEM", "trad", alg, "pw1", "AES-256-CBC") : alg \in {"RSA", "DSA", "EC"}}
    \cup {Asn(armor, "pkcs8", alg, "pw1", "pbeWithMD5AndDES-CBC") :
            armor \in {"PEM", "DER"}, alg \in {"RSA", "DSA", "EC"}}

\* byte strings that hold no key structure, offered to the asymmetric import
GarbageData ==
    {Bytes(<<0>>), Bytes(Fill(0, 8)), Bytes(<<45, 45, 45, 45>>),
     Bytes(<<45, 45, 45, 45, 45, 0, 0, 0>>)}

ImportData(key_type) ==
    IF key_type \in SimpleTypes THEN ByteData \cup {NoBlob}
    ELSE GarbageData \cup AsnData \cup {NoBlob}

\* the provider's choice of error queue shows only on an encrypted PEM key
ErrVariantsFor(data) ==
    IF data.kind = "asn" /\ data.armor = "PEM" /\ data.container = "trad" /\ data.enc /= NoEnc
    THEN ErrVariants ELSE {"evp_first"}

GenBits == {0, 12, 8, 64, 128, 192, 256, 512, 520}

Init ==
    /\ key = KEY_NULL
    /\ buf = BUF_UNSET
    /\ pkeys = {}
    /\ mem = 0
    /\ ctx = CTX_NULL
    /\ cctxs = 0
    /\ envelope = NO_ENVELOPE
    /\ pub = KEY_NULL
    /\ mdctxs = 0
    /\ wire = NO_WIRE
    /\ lib = NO_LIB
    /\ last = NoCall

\* yaca_key_import(key_type, password, data, data_len, &key)
Import(key_type, password, data, fault, ev) ==
    /\ \E r \in {yaca_key_import(key_type, password, data, fault, ev, pkeys)} :
           /\ key' = IF r.ret = YACA_ERROR_NONE THEN r.key ELSE key
           /\ pkeys' = r.pkeys
           /\ mem' = mem + r.mem
           /\ last' = [NoCall EXCEPT !.op = "import", !.ret = r.ret, !.fault = fault,
                          !.key_type = key_type, !.password = password, !.data = data,
                          !.ev = ev, !.live = pkeys,
                          !.buf_in = IF data = buf.blob THEN buf ELSE BUF_UNSET,
                          !.key_out = r.key, !.tried = r.tried,
                          !.wrong_pass = r.wrong_pass, !.freed = r.freed,
                          !.leaked = IF r.ret /= YACA_ERROR_NONE THEN r.mem ELSE 0]
    /\ UNCHANGED <<lib, buf, ctx, cctxs, envelope, pub, mdctxs, wire>>

ImportFresh ==
    /\ last.op = "none"
    /\ key = KEY_NULL
    /\ buf.st /= "data"
    /\ \E key_type \in KeyTypes, password \in Passwords, fault \in Faults :
          \E data \in ImportData(key_type) :
              \E ev \in ErrVariantsFor(data) : Import(key_type, password, data, fault, ev)

\* the client hands the exported buffer back to import
ImportBuffer ==
    /\ last.op = "none"
    /\ key = KEY_NULL
    /\ buf.st = "data"
    /\ \E key_type \in KeyTypes, password \in Passwords, fault \in Faults,
          ev \in ErrVariantsFor(buf.blob) :
          /\ key_type \in SimpleTypes => buf.blob.kind = "bytes"
          /\ Import(key_type, password, buf.blob, fault, ev)

\* yaca_key_export(key, key_fmt, key_file_fmt, password, &data, &data_len)
Export ==
    /\ last.op = "none"
    /\ buf.st = "unset"
    /\ \E key_fmt \in KeyFormats \cup {"other"}, key_file_fmt \in FileFormats,
          password \in Passwords, fault \in Faults :
          \E r \in {yaca_key_export(key, key_fmt, key_file_fmt, password, fault)} :
              /\ buf' = IF r.buf.st = "data"
                        THEN [r.buf EXCEPT !.src = key, !.fmt = key_file_fmt]
                        ELSE r.buf
              /\ mem' = IF r.buf.st = "data" THEN mem + 1 ELSE mem
              /\ last' = [NoCall EXCEPT !.op = "export", !.ret = r.ret, !.fault = fault,
                             !.key_fmt = key_fmt, !.key_file_fmt = key_file_fmt,
                             !.password = password, !.key_in = key, !.buf_out = r.buf]
    /\ UNCHANGED <<lib, key, pkeys, ctx, cctxs, envelope, pub, mdctxs, wire>>

\* yaca_key_gen(key_type, key_bits, &key)
Gen ==
    /\ last.op = "none"
    /\ key = KEY_NULL
    /\ buf.st = "unset"
    /\ mem < MaxLeaks
    /\ \E key_type \in KeyTypes, key_bits \in GenBits, b \in ByteVals, fault \in Faults,
          eh \in {YACA_ERROR_INVALID_ARGUMENT, YACA_ERROR_INTERNAL} :
          \E r \in {yaca_key_gen(key_type, key_bits, b, fault, eh, pkeys)} :
              /\ key' = IF r.ret = YACA_ERROR_NONE THEN r.key ELSE key
              /\ pkeys' = r.pkeys
              /\ mem' = mem + r.mem
              /\ last' = [NoCall EXCEPT !.op = "gen", !.ret = r.ret, !.fault = fault,
                             !.key_type = key_type, !.key_bits = key_bits,
                             !.key_out = r.key,
                             !.leaked = IF r.ret /= YACA_ERROR_NONE THEN r.mem ELSE 0]
    /\ UNCHANGED <<lib, buf, ctx, cctxs, envelope, pub, mdctxs, wire>>

\* yaca_key_free(key), the handle then reset to YACA_KEY_NULL by the client
KeyFree ==
    /\ last.op = "none"
    /\ \E r \in {yaca_key_free(key, pkeys, mem)} :
           /\ pkeys' = r.pkeys
           /\ mem' = r.mem
    /\ key' = KEY_NULL
    /\ last' = [NoCall EXCEPT !.op = "key_free", !.key_in = key]
    /\ UNCHANGED <<lib, buf, ctx, cctxs, envelope, pub, mdctxs, wire>>

\* yaca_free(data) on the exported buffer
BufFree ==
    /\ last.op = "none"
    /\ buf.st /= "unset"
    /\ buf' = BUF_UNSET
    /\ mem' = IF buf.st = "data" THEN mem - 1 ELSE mem
    /\ last' = [NoCall EXCEPT !.op = "buf_free"]
    /\ UNCHANGED <<lib, key, pkeys, ctx, cctxs, envelope, pub, mdctxs, wire>>

\* the client has read the result of the call and is ready for the next one
Return ==
    /\ last.op /= "none"
    /\ last.ret /= PROCESS_ABORTED
    /\ last' = NoCall
    /\ UNCHANGED <<lib, key, buf, pkeys, mem, ctx, cctxs, envelope, pub, mdctxs, wire>>

Next == ImportFresh \/ ImportBuffer \/ Export \/ Gen \/ KeyFree \/ BufFree \/ Return

Spec == Init /\ [][Next]_vars

(***************************************************************************)
(* The client of key extraction and derivation: it holds two key handles,  *)
(* generates or derives a key into the first, extracts the public key of   *)
(* either handle into the other, and releases the two in any order.        *)
(***************************************************************************)
DeriveIters == {-1, 0, 1, 2}
DeriveBits == {0, 4, 8, 16}

\* yaca_key_extract_public(prv_key, &pub_key): prv_key is the handle named
\* by from, the output goes to the other handle, which is empty
ExtractPublic ==
    /\ last.op = "none"
    /\ \E from \in {"key", "pub"}, fault \in Faults :
          /\ IF from = "key" THEN pub = KEY_NULL ELSE key = KEY_NULL
          /\ \E prv_key \in {IF from = "key" THEN key ELSE pub} :
              \E r \in {yaca_key_extract_public(prv_key, fault, pkeys)} :
                 /\ pub' = IF from = "key" /\ r.ret = YACA_ERROR_NONE THEN r.key ELSE pub
                 /\ key' = IF from = "pub" /\ r.ret = YACA_ERROR_NONE THEN r.key ELSE key
                 /\ pkeys' = r.pkeys
                 /\ mem' = mem + r.mem
                 /\ last' = [NoCall EXCEPT !.op = "extract_public", !.ret = r.ret,
                                !.fault = fault, !.handle = from, !.key_in = prv_key,
                                !.key_out = r.key, !.live = pkeys,
                                !.leaked = IF r.ret /= YACA_ERROR_NONE THEN r.mem ELSE 0]
    /\ UNCHANGED <<lib, buf, ctx, cctxs, envelope, mdctxs, wire>>

\* yaca_key_derive_pbkdf2(password, salt, salt_len, iter, algo, key_bits, &key)
Derive ==
    /\ last.op = "none"
    /\ key = KEY_NULL
    /\ \E password \in Passwords, salt \in {"NULL", "buf"}, salt_len \in 0..MaxInputLen,
          iter \in DeriveIters, algo \in DigestAlgos, key_bits \in DeriveBits,
          fault \in Faults :
          \E r \in {yaca_key_derive_pbkdf2(password, salt, salt_len, iter, algo,
                                           key_bits, fault)} :
              /\ key' = IF r.ret = YACA_ERROR_NONE THEN r.key ELSE key
              /\ mem' = mem + r.mem
              /\ last' = [NoCall EXCEPT !.op = "derive", !.ret = r.ret, !.fault = fault,
                             !.password = password, !.salt = salt, !.salt_len = salt_len,
                             !.iter = iter, !.algo = algo, !.key_bits = key_bits,
                             !.key_out = r.key,
                             !.leaked = IF r.ret /= YACA_ERROR_NONE THEN r.mem ELSE 0]
    /\ UNCHANGED <<lib, buf, pkeys, ctx, cctxs, envelope, pub, mdctxs, wire>>

\* yaca_key_free(pub_key), the handle then reset to YACA_KEY_NULL by the client
PubFree ==
    /\ last.op = "none"
    /\ \E r \in {yaca_key_free(pub, pkeys, mem)} :
           /\ pkeys' = r.pkeys
           /\ mem' = r.mem
    /\ pub' = KEY_NULL
    /\ last' = [NoCall EXCEPT !.op = "key_free", !.handle = "pub", !.key_in = pub,
                   !.live = pkeys]
    /\ UNCHANGED <<lib, key, buf, ctx, cctxs, envelope, mdctxs, wire>>

NextKeyOps == Gen \/ Derive \/ ExtractPublic \/ KeyFree \/ PubFree \/ Return

SpecKeyOps == Init /\ [][NextKeyOps]_vars

(***************************************************************************)
(* The client of the seal API: it holds one context handle and the         *)
(* envelope (wrapped key, IV) of the last seal, creates a context for      *)
(* sealing or for opening, streams through it with either operation's      *)
(* update/final, and releases the context and the envelope.                *)
(***************************************************************************)
RsaPair == PKey("RSA", TRUE, 1)

\* key handles offered to seal_init/open_init
SealKeys ==
    {KEY_NULL,
     EvpKey("RSA_PUB", PKey("RSA", FALSE, 1)),
     EvpKey("RSA_PRIV", RsaPair),
     EvpKey("DSA_PUB", PKey("DSA", FALSE, 2)),
     SimpleKey("SYMMETRIC", 64, Fill(0, 8))}

Pointers == {"NULL", "buf"}

\* yaca_seal_init(&ctx, pub_key, algo, bcm, sym_key_bits, &sym_key, &iv)
SealInit ==
    /\ last.op = "none"
    /\ ctx = CTX_NULL
    /\ envelope = NO_ENVELOPE
    /\ \E pub_key \in SealKeys, algo \in Algos, fault \in Faults :
          \E r \in {seal_init(pub_key, algo, fault)} :
              /\ ctx' = r.ctx
              /\ envelope' = [sym_key |-> r.sym_key, iv |-> r.iv]
              /\ mem' = mem + r.mem
              /\ cctxs' = cctxs + r.cctxs
              /\ last' = [NoCall EXCEPT !.op = "seal_init", !.ret = r.ret, !.fault = fault,
                             !.key_in = pub_key, !.algo = algo,
                             !.allocs = r.mem + r.cctxs]
    /\ UNCHANGED <<lib, key, buf, pkeys, pub, mdctxs, wire>>

\* a symmetric key of one byte, as yaca_key_import or yaca_key_gen make it
ShortKey == SimpleKey("SYMMETRIC", 8, Fill(0, 1))

\* yaca_open_init(&ctx, prv_key, algo, bcm, sym_key_bits, sym_key, iv)
OpenInit ==
    /\ last.op = "none"
    /\ ctx = CTX_NULL
    /\ \E prv_key \in SealKeys, algo \in Algos, fault \in Faults, ub \in UbOutcomes,
          sym_key \in {KEY_NULL, envelope.sym_key, envelope.iv, ShortKey},
          iv \in {KEY_NULL, envelope.sym_key, envelope.iv} :
          \E r \in {open_init(prv_key, algo, sym_key, iv, fault, ub)} :
              /\ ctx' = r.ctx
              /\ mem' = mem + r.mem
              /\ cctxs' = cctxs + r.cctxs
              /\ last' = [NoCall EXCEPT !.op = "open_init", !.ret = r.ret, !.fault = fault,
                             !.key_in = prv_key, !.algo = algo,
                             !.sym_key_in = sym_key, !.iv_in = iv,
                             !.allocs = r.mem + r.cctxs, !.ekl = r.ekl, !.ub = ub]
    /\ UNCHANGED <<lib, key, buf, pkeys, envelope, pub, mdctxs, wire>>

\* what a streaming call leaves behind
Streamed(op, r, fault, args_ok) ==
    /\ ctx' = r.ctx
    /\ last' = [NoCall EXCEPT !.op = op, !.ret = r.ret, !.fault = fault, !.ctx_in = ctx,
                   !.args_ok = args_ok, !.calls = r.calls]
    /\ UNCHANGED <<lib, key, buf, pkeys, mem, cctxs, envelope, pub, mdctxs, wire>>

\* yaca_seal_update(ctx, plain, plain_len, cipher, &cipher_len)
SealUpdate ==
    /\ last.op = "none"
    /\ \E input \in Pointers, input_len \in 0..MaxInputLen, output \in Pointers,
          output_len \in Pointers, fault \in {"none", "internal"} :
          Streamed("seal_update",
                   yaca_seal_update(ctx, input, input_len, output, output_len, fault), fault,
                   input = "buf" /\ input_len > 0 /\ output = "buf" /\ output_len = "buf")

\* yaca_open_update(ctx, cipher, cipher_len, plain, &plain_len)
OpenUpdate ==
    /\ last.op = "none"
    /\ \E input \in Pointers, input_len \in 0..MaxInputLen, output \in Pointers,
          output_len \in Pointers, fault \in {"none", "internal"} :
          Streamed("open_update",
                   yaca_open_update(ctx, input, input_len, output, output_len, fault), fault,
                   input = "buf" /\ input_len > 0 /\ output = "buf" /\ output_len = "buf")

\* yaca_seal_final(ctx, cipher, &cipher_len)
SealFinal ==
    /\ last.op = "none"
    /\ \E output \in Pointers, output_len \in Pointers, fault \in {"none", "internal"} :
          Streamed("seal_final", yaca_seal_final(ctx, output, output_len, fault), fault,
                   output = "buf" /\ output_len = "buf")

\* yaca_open_final(ctx, plain, &plain_len)
OpenFinal ==
    /\ last.op = "none"
    /\ \E output \in Pointers, output_len \in Pointers, fault \in {"none", "internal"} :
          Streamed("open_final", yaca_open_final(ctx, output, output_len, fault), fault,
                   output = "buf" /\ output_len = "buf")

\* yaca_ctx_free(ctx), the handle then reset to YACA_CTX_NULL by the client
CtxFree ==
    /\ last.op = "none"
    /\ ctx /= CTX_NULL
    /\ \E r \in {yaca_ctx_free(ctx, mem, cctxs)} :
           /\ mem' = r.mem
           /\ cctxs' = r.cctxs
    /\ ctx' = CTX_NULL
    /\ last' = [NoCall EXCEPT !.op = "ctx_free", !.ctx_in = ctx]
    /\ UNCHANGED <<lib, key, buf, pkeys, envelope, pub, mdctxs, wire>>

\* yaca_key_free(sym_key); yaca_key_free(iv)
EnvelopeFree ==
    /\ last.op = "none"
    /\ envelope /= NO_ENVELOPE
    /\ mem' = yaca_key_free(envelope.iv, pkeys,
                            yaca_key_free(envelope.sym_key, pkeys, mem).mem).mem
    /\ envelope' = NO_ENVELOPE
    /\ last' = [NoCall EXCEPT !.op = "envelope_free"]
    /\ UNCHANGED <<lib, key, buf, pkeys, ctx, cctxs, pub, mdctxs, wire>>

NextSeal ==
    \/ SealInit \/ OpenInit
    \/ SealUpdate \/ OpenUpdate \/ SealFinal \/ OpenFinal
    \/ CtxFree \/ EnvelopeFree \/ Return

SpecSeal == Init /\ [][NextSeal]_vars

(***************************************************************************)
(* The client of the context API: through its one context handle it        *)
(* creates digest, seal and open contexts, streams through them with any   *)
(* update/final, queries them through the generic dispatchers, and         *)
(* destroys the handle, null or not.                                       *)
(***************************************************************************)
DigestLens == {0, 1, 16, 32, 40}
Properties == {"PADDING", "GCM_TAG", "GCM_AAD"}

\* yaca_digest_initialize(&ctx, algo)
DigestInit ==
    /\ last.op = "none"
    /\ ctx = CTX_NULL
    /\ \E algo \in DigestAlgos, fault \in Faults :
          \E r \in {yaca_digest_initialize(algo, fault)} :
              /\ ctx' = r.ctx
              /\ mem' = mem + r.mem
              /\ mdctxs' = mdctxs + r.mdctxs
              /\ last' = [NoCall EXCEPT !.op = "digest_init", !.ret = r.ret, !.fault = fault,
                             !.algo = algo, !.allocs = r.mem + r.mdctxs]
    /\ UNCHANGED <<lib, key, buf, pkeys, cctxs, envelope, pub, wire>>

\* yaca_digest_update(ctx, data, data_len)
DigestUpdate ==
    /\ last.op = "none"
    /\ \E data \in Pointers, data_len \in 0..MaxInputLen, fault \in {"none", "internal"} :
          Streamed("digest_update", yaca_digest_update(ctx, data, data_len, fault), fault,
                   data = "buf" /\ data_len > 0)

\* yaca_digest_finalize(ctx, digest, &digest_len)
DigestFinal ==
    /\ last.op = "none"
    /\ \E digest \in Pointers, digest_len \in Pointers, len \in DigestLens,
          fault \in {"none", "internal"}, ub \in UbOutcomes :
          \E r \in {yaca_digest_finalize(ctx, digest, digest_len, len, fault, ub)} :
              /\ ctx' = r.ctx
              /\ last' = [NoCall EXCEPT !.op = "digest_final", !.ret = r.ret, !.fault = fault,
                             !.ctx_in = ctx, !.calls = r.calls,
                             !.args_ok = (digest = "buf" /\ digest_len = "buf"),
                             !.digest = digest, !.digest_len = digest_len,
                             !.len_in = len, !.len_out = r.len, !.written = r.written]
    /\ UNCHANGED <<lib, key, buf, pkeys, mem, cctxs, envelope, pub, mdctxs, wire>>

\* what a call through a dispatcher leaves behind
Dispatched(op, r, fault, property, input_len, output_len) ==
    /\ last' = [NoCall EXCEPT !.op = op, !.ret = r.ret, !.fault = fault, !.ctx_in = ctx,
                   !.calls = r.calls, !.out = r.out, !.property = property,
                   !.input_len = input_len, !.output_len = output_len]
    /\ UNCHANGED <<lib, key, buf, pkeys, mem, ctx, cctxs, envelope, pub, mdctxs, wire>>

\* yaca_context_set_property(ctx, property, value, value_len)
SetProperty ==
    /\ last.op = "none"
    /\ \E property \in Properties, value \in Pointers, value_len \in 0..MaxInputLen :
          \E r \in {yaca_context_set_property(ctx, property, value, value_len, "none")} :
              Dispatched("set_property", r, "none", property, value_len, value)

\* yaca_context_get_property(ctx, property, &value, &value_len)
GetProperty ==
    /\ last.op = "none"
    /\ \E property \in Properties, value \in Pointers, value_len \in {"buf"} :
          \E r \in {yaca_context_get_property(ctx, property, value, value_len, "none")} :
              Dispatched("get_property", r, "none", property, 0, value)

\* yaca_context_get_output_length(ctx, input_len, &output_len)
GetOutputLength ==
    /\ last.op = "none"
    /\ \E input_len \in 0..MaxInputLen, output_len \in Pointers,
          fault \in {"none", "internal"} :
          \E r \in {yaca_context_get_output_length(ctx, input_len, output_len, fault)} :
              Dispatched("get_output_length", r, fault, "none", input_len, output_len)

\* yaca_context_destroy(ctx), the handle then reset to YACA_CONTEXT_NULL
CtxDestroy ==
    /\ last.op = "none"
    /\ \E r \in {yaca_context_destroy(ctx, mem, cctxs, mdctxs)} :
           /\ mem' = r.mem
           /\ cctxs' = r.cctxs
           /\ mdctxs' = r.mdctxs
           /\ last' = [NoCall EXCEPT !.op = "ctx_destroy", !.ctx_in = ctx, !.calls = r.calls]
    /\ ctx' = CTX_NULL
    /\ UNCHANGED <<lib, key, buf, pkeys, envelope, pub, wire>>

NextCtx ==
    \/ DigestInit \/ DigestUpdate \/ DigestFinal
    \/ SealInit \/ OpenInit
    \/ SealUpdate \/ OpenUpdate \/ SealFinal \/ OpenFinal
    \/ SetProperty \/ GetProperty \/ GetOutputLength
    \/ CtxDestroy \/ KeyFree \/ EnvelopeFree \/ Return

SpecCtx == Init /\ [][NextCtx]_vars

(***************************************************************************)
(* The client of a seal/open round trip: it seals a plaintext in chunks    *)
(* to an RSA public key, reads the tag of an AEAD mode from the sealing    *)
(* context, then opens the ciphertext with the matching private key, the   *)
(* wrapped key and the IV that seal_init returned, and the tag.            *)
(***************************************************************************)
TripAlgos == {"AES_CBC", "AES_GCM"}
PlainBytes == {1, 2}

\* the round trip after a call: the next step, and the first failure kept
Stepped(w, step, op, ret) ==
    [w EXCEPT !.step = step,
              !.failed = IF w.failed = "none" /\ ret /= YACA_ERROR_NONE THEN op ELSE @]

TripSealInit ==
    /\ last.op = "none"
    /\ wire.step = "start" /\ ctx = CTX_NULL /\ envelope = NO_ENVELOPE
    /\ \E algo \in TripAlgos :
          \E r \in {seal_init(EvpKey("RSA_PUB", PKey("RSA", FALSE, 1)), algo, "none")} :
              /\ ctx' = r.ctx
              /\ envelope' = [sym_key |-> r.sym_key, iv |-> r.iv]
              /\ mem' = mem + r.mem
              /\ cctxs' = cctxs + r.cctxs
              /\ wire' = Stepped([wire EXCEPT !.algo = algo], "sealing", "seal_init", r.ret)
              /\ last' = [NoCall EXCEPT !.op = "seal_init", !.ret = r.ret, !.algo = algo,
                             !.allocs = r.mem + r.cctxs]
    /\ UNCHANGED <<lib, key, buf, pkeys, pub, mdctxs>>

\* what a streaming or property call of the round trip leaves behind
Tripped(op, r, w) ==
    /\ ctx' = r.ctx
    /\ wire' = w
    /\ last' = [NoCall EXCEPT !.op = op, !.ret = r.ret, !.ctx_in = ctx, !.calls = r.calls]
    /\ UNCHANGED <<lib, key, buf, pkeys, mem, cctxs, envelope, pub, mdctxs>>

TripSealUpdate ==
    /\ last.op = "none"
    /\ wire.step = "sealing"
    /\ \E n \in 1..MaxInputLen, b \in PlainBytes :
          /\ Len(wire.plain) + n <= MaxPlainLen
          /\ \E r \in {yaca_seal_update(ctx, "buf", n, "buf", "buf", "none")} :
                Tripped("seal_update", r,
                        Stepped([wire EXCEPT
                                    !.plain = IF r.ret = YACA_ERROR_NONE
                                              THEN @ \o Fill(b, n) ELSE @,
                                    !.sealed = IF r.ret = YACA_ERROR_NONE
                                               THEN @ \o EVP_SealUpdate(Fill(b, n)) ELSE @],
                                "sealing", "seal_update", r.ret))

TripSealFinal ==
    /\ last.op = "none"
    /\ wire.step = "sealing"
    /\ \E r \in {yaca_seal_final(ctx, "buf", "buf", "none")} :
          Tripped("seal_final", r,
                  Stepped([wire EXCEPT
                              !.sealed = IF r.ret = YACA_ERROR_NONE
                                         THEN @ \o EVP_SealFinal(wire.algo) ELSE @,
                              !.ctx_tag = IF r.ret = YACA_ERROR_NONE /\ wire.algo = "AES_GCM"
                                          THEN "tag" ELSE @],
                          "sealed", "seal_final", r.ret))

\* yaca_context_get_property(ctx, YACA_PROPERTY_GCM_TAG, &tag, &tag_len)
TripGetTag ==
    /\ last.op = "none"
    /\ wire.step = "sealed" /\ wire.algo = "AES_GCM"
    /\ \E r \in {yaca_context_get_property(ctx, "GCM_TAG", "buf", "buf", "none")} :
          Tripped("get_property", r @@ [ctx |-> ctx],
                  Stepped([wire EXCEPT !.tag = IF r.ret = YACA_ERROR_NONE
                                                THEN wire.ctx_tag ELSE @],
                          "tagged", "get_property", r.ret))

\* the sealing context is destroyed before the ciphertext is opened
TripSealDestroy ==
    /\ last.op = "none"
    /\ \/ wire.step = "sealed" /\ wire.algo /= "AES_GCM"
       \/ wire.step = "tagged"
    /\ \E r \in {yaca_context_destroy(ctx, mem, cctxs, mdctxs)} :
           /\ mem' = r.mem
           /\ cctxs' = r.cctxs
           /\ mdctxs' = r.mdctxs
           /\ last' = [NoCall EXCEPT !.op = "ctx_destroy", !.ctx_in = ctx, !.calls = r.calls]
    /\ ctx' = CTX_NULL
    /\ wire' = [wire EXCEPT !.step = "handover"]
    /\ UNCHANGED <<lib, key, buf, pkeys, envelope, pub>>

TripOpenInit ==
    /\ last.op = "none"
    /\ wire.step = "handover"
    /\ \E r \in {open_init(EvpKey("RSA_PRIV", RsaPair), wire.algo, envelope.sym_key,
                            envelope.iv, "none", "returns")} :
           /\ ctx' = r.ctx
           /\ mem' = mem + r.mem
           /\ cctxs' = cctxs + r.cctxs
           /\ wire' = Stepped(wire, IF wire.algo = "AES_GCM" THEN "keyed" ELSE "opening",
                              "open_init", r.ret)
           /\ last' = [NoCall EXCEPT !.op = "open_init", !.ret = r.ret, !.algo = wire.algo,
                          !.key_in = EvpKey("RSA_PRIV", RsaPair),
                          !.sym_key_in = envelope.sym_key, !.iv_in = envelope.iv,
                          !.allocs = r.mem + r.cctxs]
    /\ UNCHANGED <<lib, key, buf, pkeys, envelope, pub, mdctxs>>

\* yaca_context_set_property(ctx, YACA_PROPERTY_GCM_TAG, tag, tag_len)
TripSetTag ==
    /\ last.op = "none"
    /\ wire.step = "keyed"
    /\ \E r \in {yaca_context_set_property(ctx, "GCM_TAG", "buf", 1, "none")} :
          Tripped("set_property", r @@ [ctx |-> ctx],
                  Stepped([wire EXCEPT !.tag_set = IF r.ret = YACA_ERROR_NONE
                                                    THEN wire.tag ELSE @],
                          "opening", "set_property", r.ret))

TripOpenUpdate ==
    /\ last.op = "none"
    /\ wire.step = "opening"
    /\ \E n \in 1..MaxInputLen :
          /\ wire.fed + n <= Len(wire.sealed)
          /\ \E r \in {yaca_open_update(ctx, "buf", n, "buf", "buf", "none")} :
                Tripped("open_update", r,
                        Stepped([wire EXCEPT
                                    !.fed = @ + n,
                                    !.opened = IF r.ret = YACA_ERROR_NONE
                                               THEN @ \o EVP_OpenUpdate(
                                                        SubSeq(wire.sealed, wire.fed + 1,
                                                               wire.fed + n))
                                               ELSE @],
                                "opening", "open_update", r.ret))

TripOpenFinal ==
    /\ last.op = "none"
    /\ wire.step = "opening" /\ wire.fed = Len(wire.sealed)
    /\ \E r \in {yaca_open_final(ctx, "buf", "buf",
                                  IF EVP_OpenFinal(wire) THEN "none" ELSE "internal")} :
          Tripped("open_final", r, Stepped(wire, "done", "open_final", r.ret))

NextTrip ==
    \/ TripSealInit \/ TripSealUpdate \/ TripSealFinal \/ TripGetTag \/ TripSealDestroy
    \/ TripOpenInit \/ TripSetTag \/ TripOpenUpdate \/ TripOpenFinal
    \/ Return

SpecTrip == Init /\ [][NextTrip]_vars

(***************************************************************************)
(* The workers of a process: each calls yaca_initialize and yaca_cleanup   *)
(* in any order; a call is the test of the thread's flag, the wait for     *)
(* init_mutex, the block under the mutex and the unlock.                   *)
(***************************************************************************)
Event(l, op, w, what) == [l EXCEPT !.ev = [op |-> op, w |-> w, what |-> what]]

\* yaca_initialize(): the test of current_thread_initialized
InitCall(w) ==
    /\ lib.pc[w] = "idle"
    /\ lib' = IF current_thread_initialized(lib, w)
              THEN Event([lib EXCEPT !.ret[w] = YACA_ERROR_INTERNAL],
                         "yaca_initialize", w, "rejected")
              ELSE Event([lib EXCEPT !.pc[w] = "init_lock", !.ret[w] = YACA_ERROR_NONE],
                         "yaca_initialize", w, "entered")
    /\ UNCHANGED <<key, buf, pkeys, mem, ctx, cctxs, envelope, pub, mdctxs, wire, last>>

\* yaca_cleanup(): the test of current_thread_initialized and the
\* per-thread cleanup
CleanupCall(w) ==
    /\ lib.pc[w] = "idle"
    /\ lib' = IF ~current_thread_initialized(lib, w)
              THEN Event(lib, "yaca_cleanup", w, "nop")
              ELSE Event([lib EXCEPT !.pc[w] = "cleanup_lock"], "yaca_cleanup", w, "entered")
    /\ UNCHANGED <<key, buf, pkeys, mem, ctx, cctxs, envelope, pub, mdctxs, wire, last>>

\* pthread_mutex_lock(&init_mutex)
Lock(w) ==
    /\ lib.pc[w] \in {"init_lock", "cleanup_lock"}
    /\ lib.init_mutex = 0
    /\ lib' = Event([lib EXCEPT !.init_mutex = w,
                                !.pc[w] = IF @ = "init_lock" THEN "init_cs" ELSE "cleanup_cs"],
                    "lock", w, "locked")
    /\ UNCHANGED <<key, buf, pkeys, mem, ctx, cctxs, envelope, pub, mdctxs, wire, last>>

\* yaca_initialize(): the block under init_mutex
InitBody(w) ==
    /\ lib.pc[w] = "init_cs"
    /\ \E fault \in Faults :
          LET Counted(l, what) ==
                  Event([l EXCEPT !.threads_cnt = @ + 1,
                                  !.current_thread_initialized[w] = TRUE,
                                  !.pc[w] = "unlock"],
                        "yaca_initialize", w, what)
              Done(r) ==
                  IF r.ret /= YACA_ERROR_NONE
                  THEN Event([r.lib EXCEPT !.ret[w] = r.ret, !.pc[w] = "unlock"],
                             "yaca_initialize", w, "setup_failed")
                  ELSE Counted(r.lib, "setup")
          IN  lib' = IF lib.threads_cnt = 0
                     THEN Done(OneTimeSetup(lib, fault))
                     ELSE Counted(lib, "counted")
    /\ UNCHANGED <<key, buf, pkeys, mem, ctx, cctxs, envelope, pub, mdctxs, wire, last>>

\* yaca_cleanup(): the block under init_mutex
CleanupBody(w) ==
    /\ lib.pc[w] = "cleanup_cs"
    /\ LET Counted(l, what) ==
                Event([l EXCEPT !.threads_cnt = @ - 1,
                                !.current_thread_initialized[w] = FALSE,
                                !.pc[w] = "unlock"],
                      "yaca_cleanup", w, what)
       IN  lib' = IF lib.threads_cnt = 1
                  THEN Counted(LastTeardown(lib), "teardown")
                  ELSE Counted(lib, "counted")
    /\ UNCHANGED <<key, buf, pkeys, mem, ctx, cctxs, envelope, pub, mdctxs, wire, last>>

\* pthread_mutex_unlock(&init_mutex) and the return
Unlock(w) ==
    /\ lib.pc[w] = "unlock"
    /\ lib' = Event([lib EXCEPT !.init_mutex = 0, !.pc[w] = "idle"], "unlock", w, "returned")
    /\ UNCHANGED <<key, buf, pkeys, mem, ctx, cctxs, envelope, pub, mdctxs, wire, last>>

NextInit ==
    \E w \in Workers :
        \/ InitCall(w) \/ CleanupCall(w) \/ Lock(w)
        \/ InitBody(w) \/ CleanupBody(w) \/ Unlock(w)

SpecInit == Init /\ [][NextInit]_vars

(***************************************************************************)
(* Properties                                                              *)
(***************************************************************************)
StreamOps == {"seal_update", "seal_final", "open_update", "open_final"}
OpOf(op) == IF op \in {"seal_update", "seal_final"} THEN OP_SEAL ELSE OP_OPEN
NoPasswordGiven(pw) == pw \in {NoPassword, ""}
PrivTypes == {"RSA_PRIV", "DSA_PRIV"}
PubTypes == {"RSA_PUB", "DSA_PUB"}

\* C1: a streaming call (update or final) whose operation, seal or open, is
\* not the one the context was created for returns
\* YACA_ERROR_INVALID_ARGUMENT, makes no backend call and leaves the context
\* as it was, whatever its other arguments and whatever the context has
\* been through.
C1_OpMismatchRejected ==
    (/\ last.op \in StreamOps
     /\ last.ctx_in.type = "SEAL"
     /\ last.ctx_in.op_type /= OpOf(last.op))
    => /\ last.ret = YACA_ERROR_INVALID_ARGUMENT
       /\ last.calls = <<>>
       /\ ctx = last.ctx_in

\* seal_update with well-formed arguments on a context made by open_init
\* that has already been streamed through
C1_Witness ==
    /\ last.op = "seal_update"
    /\ last.ctx_in.type = "SEAL"
    /\ last.ctx_in.op_type = OP_OPEN
    /\ last.ctx_in.cipher_ctx = "updated"
    /\ last.args_ok
    /\ last.ret = YACA_ERROR_INVALID_ARGUMENT

EncryptedPrivate(data) ==
    data.kind = "asn" /\ data.container \in {"trad", "pkcs8"} /\ data.enc /= NoEnc

\* C2: importing, as an asymmetric key, a password-encrypted private key
\* (PEM traditional, PEM or DER PKCS8) with no password, the empty password
\* or a password other than the key's returns YACA_ERROR_PASSWORD_INVALID
\* and no key, unless the memory BIO could not be created.
C2_WrongPasswordReported ==
    (/\ last.op = "import"
     /\ last.key_type \in EvpTypes
     /\ last.fault /= "internal"
     /\ EncryptedPrivate(last.data)
     /\ last.password /= last.data.enc)
    => /\ last.ret = YACA_ERROR_PASSWORD_INVALID
       /\ last.wrong_pass
       /\ last.key_out = KEY_NULL
       /\ key = KEY_NULL

\* an encrypted DER PKCS8 key imported with the empty password
C2_Witness ==
    /\ last.op = "import"
    /\ last.key_type = "RSA_PRIV"
    /\ last.data = Asn("DER", "pkcs8", "RSA", "pw1", "pbeWithMD5AndDES-CBC")
    /\ last.password = ""
    /\ last.ret = YACA_ERROR_PASSWORD_INVALID

\* the key type a key structure holds, by its algorithm and container
HeldType(data) ==
    IF data.alg \notin {"RSA", "DSA"} THEN "default"
    ELSE IF data.container \in {"trad", "pkcs8"}
    THEN (IF data.alg = "RSA" THEN "RSA_PRIV" ELSE "DSA_PRIV")
    ELSE (IF data.alg = "RSA" THEN "RSA_PUB" ELSE "DSA_PUB")

\* a key structure the import can read with the password given
Readable(data, password) ==
    /\ data.kind = "asn"
    /\ data.enc = NoEnc \/ data.enc = password
    /\ data.armor = "PEM" \/ data.container /= "x509"

HandleType(k) ==
    IF k.evp.alg = "RSA" THEN (IF k.evp.private THEN "RSA_PRIV" ELSE "RSA_PUB")
    ELSE IF k.evp.alg = "DSA" THEN (IF k.evp.private THEN "DSA_PRIV" ELSE "DSA_PUB")
    ELSE "default"

\* C3: an asymmetric import that reads a key succeeds exactly when the
\* key's algorithm and role are the requested key_type; on a mismatch it
\* returns YACA_ERROR_INVALID_ARGUMENT, stores no key and frees the backend
\* handle it had parsed; every key an import returns is tagged with the
\* algorithm and role of its live backend handle.
C3_ImportTypeChecked ==
    (last.op = "import" /\ last.key_type \in EvpTypes)
    => /\ last.ret = YACA_ERROR_NONE
          => /\ last.key_out.shape = "evp"
             /\ last.key_out.type = last.key_type
             /\ HandleType(last.key_out) = last.key_type
             /\ last.key_out.evp.id \in pkeys
             /\ key = last.key_out
       /\ (last.fault = "none" /\ Readable(last.data, last.password))
          => IF HeldType(last.data) = last.key_type
             THEN last.ret = YACA_ERROR_NONE
             ELSE /\ last.ret = YACA_ERROR_INVALID_ARGUMENT
                  /\ last.key_out = KEY_NULL
                  /\ key = KEY_NULL
                  /\ last.freed /= 0
                  /\ last.freed \notin pkeys

\* an RSA private key imported as a DSA private key
C3_Witness ==
    /\ last.op = "import"
    /\ last.key_type = "DSA_PRIV"
    /\ last.data = Asn("PEM", "trad", "RSA", NoEnc, "none")
    /\ last.ret = YACA_ERROR_INVALID_ARGUMENT
    /\ last.freed /= 0
    /\ pkeys = {}

\* C4: exporting an RSA or DSA public key with a non-empty password
\* returns YACA_ERROR_INVALID_ARGUMENT and writes no output, in every key
\* format and file format.
C4_PublicExportRejectsPassword ==
    (/\ last.op = "export"
     /\ last.fault = "none"
     /\ last.key_in.shape = "evp"
     /\ last.key_in.type \in PubTypes
     /\ ~NoPasswordGiven(last.password))
    => /\ last.ret = YACA_ERROR_INVALID_ARGUMENT
       /\ last.buf_out.st = "unset"

\* C5: exporting an RSA or DSA private key in the PKCS8 key format, file
\* format PEM or DER, with no password (NULL or empty) returns
\* YACA_ERROR_INVALID_ARGUMENT and writes no output.
C5_Pkcs8ExportRequiresPassword ==
    (/\ last.op = "export"
     /\ last.fault = "none"
     /\ last.key_in.shape = "evp"
     /\ last.key_in.type \in PrivTypes
     /\ last.key_fmt = "PKCS8"
     /\ last.key_file_fmt \in {"PEM", "DER"}
     /\ NoPasswordGiven(last.password))
    => /\ last.ret = YACA_ERROR_INVALID_ARGUMENT
       /\ last.buf_out.st /= "data"

\* C6: exporting an RSA or DSA private key in the default key format, file
\* format PEM or DER, writes a blob encrypted with AES-256-CBC under the
\* password if and only if a non-empty password was given.
C6_DefaultExportEncryptsIffPassword ==
    (/\ last.op = "export"
     /\ last.fault = "none"
     /\ last.key_in.shape = "evp"
     /\ last.key_in.type \in PrivTypes
     /\ last.key_fmt = "DEFAULT"
     /\ last.key_file_fmt \in {"PEM", "DER"})
    => /\ last.ret = YACA_ERROR_NONE
       /\ last.buf_out.st = "data"
       /\ (last.buf_out.blob.enc = last.password
           /\ last.buf_out.blob.cipher = "AES-256-CBC")
          <=> ~NoPasswordGiven(last.password)

LegalSimpleExport(c) ==
    /\ c.key_fmt = "DEFAULT"
    /\ c.key_file_fmt \in {"RAW", "BASE64"}
    /\ NoPasswordGiven(c.password)

\* C7: exporting a symmetric, IV or DES key succeeds only in the default
\* key format with file format raw or base64 and no password; with any
\* other pair of formats, or with a non-empty password, it returns
\* YACA_ERROR_INVALID_ARGUMENT and writes no output.
C7_SimpleExportMatrix ==
    (last.op = "export" /\ last.key_in.shape = "simple")
    => /\ last.ret = YACA_ERROR_NONE => LegalSimpleExport(last)
       /\ ~LegalSimpleExport(last)
          => /\ last.ret = YACA_ERROR_INVALID_ARGUMENT
             /\ last.buf_out.st = "unset"

\* a raw export of a symmetric key asked for with a password
C7_Witness ==
    /\ last.op = "export"
    /\ last.key_in.shape = "simple"
    /\ last.key_in.type = "SYMMETRIC"
    /\ last.key_fmt = "DEFAULT"
    /\ last.key_file_fmt = "RAW"
    /\ last.password = "pw1"
    /\ last.ret = YACA_ERROR_INVALID_ARGUMENT

\* the import of a buffer that a symmetric or IV key was exported to, raw or
\* base64, under the key's own type, with no password and no fault
RoundTrip ==
    /\ last.op = "import"
    /\ last.fault = "none"
    /\ last.password = NoPassword
    /\ last.buf_in.st = "data"
    /\ last.buf_in.src.shape = "simple"
    /\ last.buf_in.src.type \in {"SYMMETRIC", "IV"}
    /\ last.buf_in.fmt \in {"RAW", "BASE64"}
    /\ last.key_type = last.buf_in.src.type

\* the imported key has the bytes and the bit length of the exported one,
\* and exporting it again gives the same buffer
Reproduced ==
    /\ last.ret = YACA_ERROR_NONE
    /\ last.key_out.shape = "simple"
    /\ last.key_out.d = last.buf_in.src.d
    /\ last.key_out.bits = last.buf_in.src.bits
    /\ yaca_key_export(last.key_out, "DEFAULT", last.buf_in.fmt, NoPassword, "none").buf.blob
           = last.buf_in.blob

\* the bytes are themselves a well-formed base64 text
LooksBase64(d) ==
    /\ Len(d) % 4 = 0
    /\ \A i \in 1..Len(d) : conv_ascii2bin(d[i]) >= 0

\* C8 (as claimed): importing the raw or base64 export of a symmetric or IV
\* key K, under K's type and with no password, succeeds and returns a key
\* with exactly K's bytes and bit length, and exporting that key again
\* reproduces the buffer.
C8_RoundTripAnyKey == RoundTrip => Reproduced

\* C8 (amended): the base64 export of every symmetric or IV key K imports
\* back to K; the raw export imports back to K exactly when K's bytes are
\* not themselves a well-formed base64 text (a length that is a multiple
\* of 4, of base64 characters only), and otherwise imports as the key those
\* bytes decode to.
C8_RoundTripUnlessBase64 ==
    RoundTrip
    => IF last.buf_in.fmt = "BASE64" \/ ~LooksBase64(last.buf_in.src.d)
       THEN Reproduced
       ELSE /\ last.ret = YACA_ERROR_NONE
            /\ last.key_out.d = b64_read(last.buf_in.src.d)
            /\ last.key_out.d /= last.buf_in.src.d

\* the base64 export of the key "AAAAAAAA", itself a base64 text, imported back
C8_Witness ==
    /\ RoundTrip
    /\ last.buf_in.fmt = "BASE64"
    /\ last.buf_in.src.d = Fill(65, 8)
    /\ Reproduced

\* C9: a symmetric import never treats input whose length is not a
\* multiple of 4 as base64; it takes the decoded bytes as the key only when
\* their number is floor(len/4)*3 less the trailing '=' characters (two at
\* most); in every other case it takes the input bytes themselves as the
\* key, and the rejected decoding is no error of the import.
C9_Base64Detection ==
    (/\ last.op = "import"
     /\ last.key_type \in SimpleTypes
     /\ last.fault = "none"
     /\ NoPasswordGiven(last.password)
     /\ last.data.kind = "bytes")
    => LET d == last.data.d
           n == Len(d)
           padding == IF d[n] = 61 THEN (IF d[n - 1] = 61 THEN 2 ELSE 1) ELSE 0
       IN  /\ last.key_type /= "DES" => last.ret = YACA_ERROR_NONE
           /\ last.ret \in {YACA_ERROR_NONE, YACA_ERROR_INVALID_ARGUMENT}
           /\ last.ret = YACA_ERROR_NONE
              => /\ last.key_out.shape = "simple"
                 /\ last.key_out.bits = 8 * Len(last.key_out.d)
                 /\ n % 4 /= 0 => last.key_out.d = d
                 /\ last.key_out.d /= d
                    => /\ n % 4 = 0
                       /\ Len(last.key_out.d) = (n \div 4) * 3 - padding
                       /\ last.key_out.d = b64_read(d)

\* four bytes that are no base64 text, taken as the key verbatim
C9_Witness ==
    /\ last.op = "import"
    /\ last.key_type = "SYMMETRIC"
    /\ last.fault = "none"
    /\ last.data = Bytes(<<65, 65, 65, 0>>)
    /\ last.ret = YACA_ERROR_NONE
    /\ last.key_out.d = <<65, 65, 65, 0>>

DesLegalBits == {YACA_KEY_UNSAFE_64BIT, YACA_KEY_UNSAFE_128BIT, YACA_KEY_192BIT}

\* C10: generating a DES key of a length other than 64, 128 or 192 bits
\* returns YACA_ERROR_INVALID_ARGUMENT, and of a legal length gives a key
\* of exactly that many bits; importing DES key data whose length, raw or
\* base64-decoded, is none of the three returns
\* YACA_ERROR_INVALID_ARGUMENT; every DES key held has 64, 128 or 192 bits.
C10_DesLengths ==
    /\ (key.shape = "simple" /\ key.type = "DES")
       => key.bits \in DesLegalBits /\ key.bits = 8 * Len(key.d)
    /\ (last.op = "gen" /\ last.key_type = "DES")
       => IF last.key_bits \in DesLegalBits
          THEN /\ last.fault = "none" => last.ret = YACA_ERROR_NONE
               /\ last.ret = YACA_ERROR_NONE
                  => last.key_out.type = "DES" /\ last.key_out.bits = last.key_bits
          ELSE last.ret = YACA_ERROR_INVALID_ARGUMENT /\ last.key_out = KEY_NULL
    /\ (last.op = "import" /\ last.key_type = "DES" /\ last.data.kind = "bytes")
       => /\ last.ret = YACA_ERROR_NONE => last.key_out.bits \in DesLegalBits
          /\ (/\ last.fault = "none"
              /\ NoPasswordGiven(last.password)
              /\ 8 * Len(last.data.d) \notin DesLegalBits
              /\ 8 * Len(b64_read(last.data.d)) \notin DesLegalBits)
             => last.ret = YACA_ERROR_INVALID_ARGUMENT

\* a DES key of 256 bits asked of the generator
C10_Witness ==
    /\ last.op = "gen"
    /\ last.key_type = "DES"
    /\ last.key_bits = 256
    /\ last.ret = YACA_ERROR_INVALID_ARGUMENT

(***************************************************************************)
(* C11: yaca_key_derive_pbkdf2 returns YACA_ERROR_INVALID_ARGUMENT and     *)
(* creates no key unless the password is present and non-empty, the salt   *)
(* is present and non-empty, iterations > 0, bits > 0 and bits % 8 = 0;    *)
(* when all hold and the backend succeeds it returns a Simple key of the   *)
(* requested bit length.                                                   *)
(***************************************************************************)
DeriveArgsLegal(c) ==
    /\ c.password \notin {NoPassword, ""}
    /\ c.salt /= "NULL" /\ c.salt_len > 0
    /\ c.iter > 0
    /\ c.key_bits > 0 /\ c.key_bits % 8 = 0

C11_DeriveContract ==
    last.op = "derive" =>
        /\ ~DeriveArgsLegal(last) =>
               /\ last.ret = YACA_ERROR_INVALID_ARGUMENT
               /\ last.key_out = KEY_NULL
               /\ last.leaked = 0
        /\ DeriveArgsLegal(last) /\ last.fault = "none" /\ last.algo /= "INVALID" =>
               /\ last.ret = YACA_ERROR_NONE
               /\ key_get_simple(last.key_out) /= KEY_NULL
               /\ last.key_out.bits = last.key_bits

(***************************************************************************)
(* C12: yaca_key_extract_public on an RSA (DSA) private key returns a new  *)
(* key tagged RSA (DSA) public whose backend handle is a fresh object,     *)
(* distinct from the private key's, so that destroying either key leaves   *)
(* the other's handle live; on a null, Simple or public key it returns     *)
(* YACA_ERROR_INVALID_ARGUMENT and no key.                                 *)
(***************************************************************************)
PublicOf(type) == IF type = "RSA_PRIV" THEN "RSA_PUB" ELSE "DSA_PUB"

HandleLive(k) == k.shape = "evp" => k.evp.id \in pkeys

C12_ExtractPublicDetached ==
    /\ last.op = "extract_public" =>
           IF last.key_in.shape = "evp" /\ last.key_in.type \in PrivTypes
           THEN /\ last.fault = "none" => last.ret = YACA_ERROR_NONE
                /\ last.ret = YACA_ERROR_NONE =>
                       /\ last.key_out.shape = "evp"
                       /\ last.key_out.type = PublicOf(last.key_in.type)
                       /\ last.key_out.evp.alg = last.key_in.evp.alg
                       /\ last.key_out.evp.id /= last.key_in.evp.id
                       /\ last.key_out.evp.id \notin last.live
           ELSE /\ last.key_in.shape /= "evp" \/ last.fault = "none" =>
                       last.ret = YACA_ERROR_INVALID_ARGUMENT
                /\ last.ret /= YACA_ERROR_NONE
                /\ last.key_out = KEY_NULL
                /\ last.leaked = 0
                /\ pkeys = last.live
    /\ HandleLive(key) /\ HandleLive(pub)
    /\ key.shape = "evp" /\ pub.shape = "evp" => key.evp.id /= pub.evp.id

\* the private key was destroyed first and the extracted public key is held
C12_Witness ==
    /\ last.op = "key_free" /\ last.handle = "none"
    /\ last.key_in.shape = "evp" /\ last.key_in.type \in PrivTypes
    /\ key = KEY_NULL
    /\ pub.shape = "evp" /\ pub.type \in PubTypes /\ pub.evp.id \in pkeys

(***************************************************************************)
(* C13: for every key, key type, format and data, yaca_key_import and      *)
(* yaca_key_export called with the empty string as password return the     *)
(* result code and the output of the same call made with no password.      *)
(***************************************************************************)
C13_EmptyPasswordIsNoPassword ==
    /\ last.op = "import" /\ last.password = "" =>
           LET Same(r) == r.ret = last.ret /\ r.key = last.key_out
           IN  Same(yaca_key_import(last.key_type, NoPassword, last.data, last.fault,
                                    last.ev, last.live))
    /\ last.op = "export" /\ last.password = "" =>
           LET Same(r) == r.ret = last.ret /\ r.buf = last.buf_out
           IN  Same(yaca_key_export(last.key_in, last.key_fmt, last.key_file_fmt,
                                    NoPassword, last.fault))

\* an asymmetric key was exported with the empty string as password
C13_Witness ==
    /\ last.op = "export" /\ last.password = ""
    /\ last.key_in.shape = "evp"
    /\ last.ret = YACA_ERROR_NONE /\ last.buf_out.st = "data"

(***************************************************************************)
(* C14: seal_init returns YACA_ERROR_INVALID_ARGUMENT, before allocating   *)
(* anything, unless the recipient key is non-null and tagged exactly       *)
(* RSA-public; open_init returns YACA_ERROR_INVALID_ARGUMENT unless the    *)
(* recipient key is tagged exactly RSA-private and the wrapped key is a    *)
(* Simple key of type symmetric.                                           *)
(***************************************************************************)
TaggedAs(k, type) == k /= KEY_NULL /\ k.type = type

Refused ==
    /\ last.ret = YACA_ERROR_INVALID_ARGUMENT
    /\ ctx = CTX_NULL
    /\ last.allocs = 0

C14_RecipientKeyChecked ==
    /\ last.op = "seal_init" /\ ~TaggedAs(last.key_in, "RSA_PUB") =>
           Refused /\ envelope = NO_ENVELOPE
    /\ last.op = "open_init"
          /\ ~(/\ TaggedAs(last.key_in, "RSA_PRIV")
               /\ last.sym_key_in.shape = "simple"
               /\ last.sym_key_in.type = "SYMMETRIC") =>
           Refused

\* an RSA private key was offered to seal_init while allocation would fail
C14_Witness ==
    /\ last.op = "seal_init" /\ last.fault = "oom"
    /\ TaggedAs(last.key_in, "RSA_PRIV")
    /\ last.ret = YACA_ERROR_INVALID_ARGUMENT

(***************************************************************************)
(* C15: open_init returns YACA_ERROR_INVALID_ARGUMENT and creates no       *)
(* context when the cipher requires an IV and none is supplied, when the   *)
(* supplied IV is not an IV-typed Simple key, when the supplied IV's bit   *)
(* length differs from the cipher's IV length, and when the cipher         *)
(* requires no IV and one is supplied.                                     *)
(***************************************************************************)
IvBitsOf(algo) == EVP_CIPHER_iv_length(algo) * 8

IsIvKey(k) == k.shape = "simple" /\ k.type = "IV"

C15_IvChecked ==
    last.op = "open_init" /\ last.algo /= "INVALID" /\ last.fault /= "oom" =>
        /\ IvBitsOf(last.algo) /= 0 /\ last.iv_in = KEY_NULL => Refused
        /\ last.iv_in /= KEY_NULL /\ ~IsIvKey(last.iv_in) => Refused
        /\ IsIvKey(last.iv_in) /\ last.iv_in.bits /= IvBitsOf(last.algo) => Refused
        /\ IvBitsOf(last.algo) = 0 /\ last.iv_in /= KEY_NULL => Refused

\* a well-typed IV of another cipher's length was offered with valid keys
C15_Witness ==
    /\ last.op = "open_init" /\ last.algo = "AES_CBC" /\ last.fault = "none"
    /\ TaggedAs(last.key_in, "RSA_PRIV")
    /\ last.sym_key_in.shape = "simple" /\ last.sym_key_in.type = "SYMMETRIC"
    /\ IsIvKey(last.iv_in) /\ last.iv_in.bits = 96
    /\ last.ret = YACA_ERROR_INVALID_ARGUMENT

(***************************************************************************)
(* C17: yaca_digest_finalize returns YACA_ERROR_INVALID_ARGUMENT, without  *)
(* writing to the buffer and without finalizing the backend state,         *)
(* whenever *digest_len on entry is smaller than the algorithm's digest    *)
(* length; on success it sets *digest_len to the number of bytes written.  *)
(***************************************************************************)
C17_DigestBufferChecked ==
    last.op = "digest_final" /\ last.ctx_in.type = "DIGEST" /\ last.args_ok =>
        /\ last.len_in < EVP_MD_size(last.ctx_in.md) =>
               /\ last.ret = YACA_ERROR_INVALID_ARGUMENT
               /\ last.written = 0
               /\ last.calls = <<>>
               /\ ctx = last.ctx_in
        /\ last.ret = YACA_ERROR_NONE => last.len_out = last.written

(***************************************************************************)
(* C18: a digest, seal or open context is Initialized, then Updated zero   *)
(* or more times, then Finalized exactly once, and Finalized is terminal:  *)
(* after a finalize has succeeded on a context every later update or       *)
(* finalize on it is rejected with an error and never reaches the backend. *)
(***************************************************************************)
Finalized(h) ==
    \/ h.type = "DIGEST" /\ h.mdctx = "final"
    \/ h.type = "SEAL" /\ h.cipher_ctx = "final"

LifecycleOps == StreamOps \cup {"digest_update", "digest_final"}

C18_FinalizedIsTerminal ==
    last.op \in LifecycleOps /\ Finalized(last.ctx_in) =>
        /\ last.ret /= YACA_ERROR_NONE
        /\ last.calls = <<>>

(***************************************************************************)
(* C19: the dispatchers yaca_context_set_property,                         *)
(* yaca_context_get_property and yaca_context_get_output_length return     *)
(* YACA_ERROR_INVALID_ARGUMENT without calling any concrete function when  *)
(* the context is null or the capability slot is unset; otherwise they     *)
(* return exactly what the concrete capability returns. A digest context   *)
(* installs no property capability and rejects every property call.        *)
(***************************************************************************)
DispatchOps == {"set_property", "get_property", "get_output_length"}

NotDelegated == last.ret = YACA_ERROR_INVALID_ARGUMENT /\ last.calls = <<>>

Delegated ==
    LET Same(r) == last.ret = r.ret /\ last.out = r.out /\ last.calls = r.calls
    IN  /\ last.calls = <<Slot(last.ctx_in, last.op)>>
        /\ Same(CallSlot(Slot(last.ctx_in, last.op), last.ctx_in, last.input_len,
                          last.fault))

DigestRejectsProperties ==
    last.op \in {"set_property", "get_property"} /\ last.ctx_in.type = "DIGEST" =>
        NotDelegated

\* the claim as stated
C19_DispatchersDelegate ==
    /\ last.op \in DispatchOps =>
           IF last.ctx_in = CTX_NULL \/ Slot(last.ctx_in, last.op) = "NULL"
           THEN NotDelegated
           ELSE Delegated
    /\ DigestRejectsProperties

\* C19 as amended: yaca_context_get_output_length also rejects a null
\* output_len without calling the concrete function
C19_DispatchersDelegateUnlessNoOutput ==
    /\ last.op \in DispatchOps =>
           IF \/ last.ctx_in = CTX_NULL
              \/ Slot(last.ctx_in, last.op) = "NULL"
              \/ last.op = "get_output_length" /\ last.output_len = "NULL"
           THEN NotDelegated
           ELSE Delegated
    /\ DigestRejectsProperties

\* the output length of a digest context came from its concrete function
C19_Witness ==
    /\ last.op = "get_output_length" /\ last.ctx_in.type = "DIGEST"
    /\ last.calls = <<"get_digest_output_length">>
    /\ last.ret = YACA_ERROR_NONE /\ last.out = EVP_MD_size(last.ctx_in.md)

(***************************************************************************)
(* C20: destroying a context always runs the concrete type's teardown,     *)
(* which releases the backend digest or cipher state, before the           *)
(* context's own memory is released, for digest and seal contexts alike;   *)
(* destroying the null context or the null key is a no-op that touches no  *)
(* resource.                                                               *)
(***************************************************************************)
TeardownOf(h) ==
    IF h.type = "DIGEST" THEN "destroy_digest_context" ELSE "destroy_seal_ctx"

DestroyedInOrder ==
    last.op = "ctx_destroy" /\ last.ctx_in /= CTX_NULL =>
        /\ last.calls = <<TeardownOf(last.ctx_in), "yaca_free">>
        /\ ctx = CTX_NULL
        /\ cctxs = 0 /\ mdctxs = 0

NullDestroyed ==
    \/ last'.op = "ctx_destroy" /\ last'.ctx_in = CTX_NULL
    \/ last'.op = "key_free" /\ last'.key_in = KEY_NULL

C20_DestroyOrder ==
    /\ []DestroyedInOrder
    /\ [][NullDestroyed =>
             /\ last'.calls = <<>>
             /\ UNCHANGED <<lib, key, buf, pkeys, mem, ctx, cctxs, envelope, pub, mdctxs, wire>>]_vars

\* a digest context was destroyed and its backend state went with it
C20_Witness ==
    /\ last.op = "ctx_destroy" /\ last.ctx_in.type = "DIGEST"
    /\ last.calls = <<"destroy_digest_context", "yaca_free">>
    /\ mdctxs = 0 /\ mem = 0

\* C16: sealing a plaintext to a public key with AES in CBC or GCM mode and
\* opening the ciphertext with the matching private key, the wrapped key and
\* IV returned by seal_init and, for GCM, the tag read from the sealing
\* context, has every step succeed and yields the original plaintext.
C16_SealOpenRoundTrip ==
    /\ wire.failed = "none"
    /\ wire.step = "done" => wire.opened = wire.plain

(***************************************************************************)
(* C21: under any interleaving of workers, whenever init_mutex is free the *)
(* shared counter equals the number of workers whose flag is set, the      *)
(* counter never underflows, and the backend-wide state is set up if and   *)
(* only if the counter is greater than 0; the one-time setup runs exactly  *)
(* in the step that takes the counter from 0 to 1 and the teardown         *)
(* exactly in the step that takes it from 1 to 0.                          *)
(***************************************************************************)
InitializedWorkers(l) == {w \in Workers : l.current_thread_initialized[w]}

BackendSetUp(l) ==
    /\ l.rand_method = "new_rand_method"
    /\ l.algorithms
    /\ l.mutexes = "allocated"
    /\ l.locking_callback = "locking_callback"

BackendPristine(l) ==
    /\ l.rand_method = "default"
    /\ ~l.algorithms
    /\ l.mutexes = "NULL"
    /\ l.locking_callback = "NULL"

CounterMatchesFlags ==
    /\ lib.threads_cnt >= 0
    /\ lib.init_mutex = 0 => lib.threads_cnt = Cardinality(InitializedWorkers(lib))

SetUpIffCounted ==
    lib.init_mutex = 0 =>
        IF lib.threads_cnt > 0 THEN BackendSetUp(lib) ELSE BackendPristine(lib)

SetupOnFirstTeardownOnLast ==
    /\ lib'.ev.what \in {"setup", "setup_failed"}
          <=> lib.threads_cnt = 0 /\ lib'.threads_cnt = 1
    /\ lib'.ev.what = "teardown"
          <=> lib.threads_cnt = 1 /\ lib'.threads_cnt = 0

C21_RefCountedInit ==
    /\ [](CounterMatchesFlags /\ SetUpIffCounted)
    /\ [][SetupOnFirstTeardownOnLast]_vars

(***************************************************************************)
(* C29: whenever no worker is initialized and no call is in progress, the  *)
(* process-wide state is the one before the first call: the provider uses  *)
(* its original random method, init_mutex is free and the counter is 0,    *)
(* also after initializations that failed in the one-time setup.           *)
(***************************************************************************)
C29_CleanupRestores ==
    (InitializedWorkers(lib) = {} /\ \A w \in Workers : lib.pc[w] = "idle") =>
        /\ lib.rand_method = "default"
        /\ lib.init_mutex = 0
        /\ lib.threads_cnt = 0

(***************************************************************************)
(* C22: yaca_initialize called by a worker that is already initialized     *)
(* returns an error and leaves the counter, every worker's flag and the    *)
(* backend state as they were; yaca_cleanup called by a worker that is not *)
(* initialized does nothing, whatever the other workers are doing.         *)
(***************************************************************************)
ProcessWide(l) ==
    <<l.threads_cnt, l.current_thread_initialized, l.init_mutex, l.saved_rand_method,
      l.rand_method, l.algorithms, l.mutexes, l.locking_callback, l.pc>>

CalledBy(w, op) ==
    lib.pc[w] = "idle" /\ lib'.ev.op = op /\ lib'.ev.w = w

C22_UsageErrorsAreInert ==
    [][\A w \in Workers :
          /\ CalledBy(w, "yaca_initialize") /\ lib.current_thread_initialized[w]
                => lib'.ret[w] /= YACA_ERROR_NONE /\ ProcessWide(lib') = ProcessWide(lib)
          /\ CalledBy(w, "yaca_cleanup") /\ ~lib.current_thread_initialized[w]
                => ProcessWide(lib') = ProcessWide(lib) /\ lib'.ret = lib.ret]_vars

\* a worker's cleanup was a no-op while the other worker, whose second
\* yaca_initialize had been refused, was the only one initialized
C22_Witness ==
    \E w, v \in Workers :
        /\ w /= v
        /\ lib.ev = [op |-> "yaca_cleanup", w |-> w, what |-> "nop"]
        /\ lib.current_thread_initialized[v] /\ lib.ret[v] = YACA_ERROR_INTERNAL
        /\ lib.threads_cnt = 1 /\ BackendSetUp(lib)

(***************************************************************************)
(* C23: a key operation (import, generate, derive, extract_public) or a    *)
(* context constructor (digest initialize, seal_init, open_init) that      *)
(* returns a non-zero code has released every block and backend object it  *)
(* allocated: the live allocations after the call are those before it.     *)
(***************************************************************************)
AllocatingOps ==
    {"import", "gen", "derive", "extract_public", "seal_init", "open_init", "digest_init"}

C23_NoLeakOnFailure ==
    (last.op \in AllocatingOps /\ last.ret \notin {YACA_ERROR_NONE, PROCESS_ABORTED}) =>
        last.leaked = 0 /\ last.allocs = 0

(***************************************************************************)
(* C24: every Simple key the client holds (imported, generated, derived,   *)
(* or the wrapped key and the IV returned by seal_init, also for a cipher  *)
(* whose IV length is 0) has bits > 0, bits a multiple of 8 and bits equal *)
(* to 8 times the length of its byte buffer.                               *)
(***************************************************************************)
SimpleKeyInvariant(k) ==
    k.shape = "simple" => k.bits > 0 /\ k.bits % 8 = 0 /\ k.bits = 8 * Len(k.d)

C24_SimpleKeyInvariant ==
    /\ SimpleKeyInvariant(key)
    /\ SimpleKeyInvariant(pub)
    /\ SimpleKeyInvariant(envelope.sym_key)
    /\ SimpleKeyInvariant(envelope.iv)

(***************************************************************************)
(* C27: open_init called for a cipher whose IV length is 0 with no IV      *)
(* (YACA_KEY_NULL) and otherwise valid arguments (an RSA private key, a    *)
(* symmetric wrapped key, no allocation failure) passes the IV checks: it  *)
(* does not return YACA_ERROR_INVALID_ARGUMENT.                            *)
(***************************************************************************)
OpenArgsValidNoIv(c) ==
    /\ c.op = "open_init"
    /\ c.fault /= "oom"
    /\ TaggedAs(c.key_in, "RSA_PRIV")
    /\ TaggedAs(c.sym_key_in, "SYMMETRIC")
    /\ encrypt_get_algorithm(c.algo).ret = YACA_ERROR_NONE
    /\ IvBitsOf(c.algo) = 0
    /\ c.iv_in = KEY_NULL

C27_OpenWithoutIv ==
    OpenArgsValidNoIv(last) => last.ret /= YACA_ERROR_INVALID_ARGUMENT

(***************************************************************************)
(* C28: whenever open_init reaches EVP_OpenInit, the wrapped-key length it *)
(* hands over is at most the byte length of the wrapped key it was given:  *)
(* a wrapped key shorter than the RSA key's size is never read past its    *)
(* end.                                                                    *)
(***************************************************************************)
C28_WrappedKeyLengthBounded ==
    (last.op = "open_init" /\ last.ekl > 0) =>
        /\ last.ekl <= Len(last.sym_key_in.d)
        /\ last.ekl <= last.sym_key_in.bits \div 8

(***************************************************************************)
(* C25: asymmetric import tries its decodings in a fixed order and stops   *)
(* at the first decisive event (a key read, or the wrong-password signal   *)
(* latched): private key, public key, certificate for data that starts     *)
(* with the PEM marker, and PKCS8 private key, plain private key, public   *)
(* key otherwise; the decodings of the other encoding are never tried, and *)
(* the key returned is the one the first successful attempt read.          *)
(***************************************************************************)
PemOrder == <<"PEM_PrivateKey", "PEM_PUBKEY", "PEM_X509">>
DerOrder == <<"DER_PKCS8", "DER_PrivateKey", "DER_PUBKEY">>

\* the call reached the decoding attempts of import_evp
Sniffed(c) ==
    /\ c.op = "import"
    /\ c.key_type \in EvpTypes
    /\ c.data.kind /= "none"
    /\ BlobLen(c.data) >= 4
    /\ c.fault /= "internal"

\* what each decoding of the data's encoding gives, in the order of the code
Decodings(c) ==
    LET pass == password_dummy_cb(NormalizePassword(c.password))
    IN  IF HasPemMarker(c.data)
        THEN <<PEM_read_bio_PrivateKey(c.data, pass, c.ev), PEM_read_bio_PUBKEY(c.data),
               PEM_read_bio_X509(c.data)>>
        ELSE <<d2i_PKCS8PrivateKey_bio(c.data, pass), d2i_PrivateKey_bio(c.data),
               d2i_PUBKEY_bio(c.data)>>

\* the attempts after which check_import_wrong_pass is consulted
Latching(c) == IF HasPemMarker(c.data) THEN {1, 2, 3} ELSE {1}

Decisive(c, i) ==
    \/ Decodings(c)[i].alg /= "none"
    \/ i \in Latching(c) /\ check_import_wrong_pass(Decodings(c)[i].err)

\* the number of attempts up to the first decisive one
AttemptsDue(c) ==
    IF \E i \in 1..3 : Decisive(c, i)
    THEN CHOOSE i \in 1..3 : Decisive(c, i) /\ \A j \in 1..(i - 1) : ~Decisive(c, j)
    ELSE 3

C25_ImportOrder ==
    Sniffed(last) =>
        /\ last.tried = SubSeq(IF HasPemMarker(last.data) THEN PemOrder ELSE DerOrder,
                               1, AttemptsDue(last))
        /\ last.ret = YACA_ERROR_NONE =>
              /\ Decodings(last)[AttemptsDue(last)].alg = last.key_out.evp.alg
              /\ Decodings(last)[AttemptsDue(last)].private = last.key_out.evp.private

\* a PEM public key was imported by the second attempt, after the private-key
\* decoding had failed without latching the signal
C25_Witness ==
    /\ Sniffed(last)
    /\ last.ret = YACA_ERROR_NONE
    /\ last.tried = <<"PEM_PrivateKey", "PEM_PUBKEY">>
    /\ ~last.key_out.evp.private

(***************************************************************************)
(* C26: asymmetric import returns YACA_ERROR_PASSWORD_INVALID exactly when *)
(* every decoding it attempted failed and the wrong-password signal was    *)
(* latched; when every attempt failed and the signal was not latched it    *)
(* returns YACA_ERROR_INVALID_ARGUMENT; an import in which an attempt read *)
(* a key never returns YACA_ERROR_PASSWORD_INVALID.                        *)
(***************************************************************************)
AllAttemptsFailed(c) ==
    \A i \in 1..Len(c.tried) : Decodings(c)[i].alg = "none"

SignalLatched(c) ==
    \E i \in 1..Len(c.tried) :
        i \in Latching(c) /\ check_import_wrong_pass(Decodings(c)[i].err)

C26_ImportClassification ==
    Sniffed(last) =>
        /\ last.ret = YACA_ERROR_PASSWORD_INVALID
              <=> AllAttemptsFailed(last) /\ SignalLatched(last)
        /\ AllAttemptsFailed(last) /\ ~SignalLatched(last)
              => last.ret = YACA_ERROR_INVALID_ARGUMENT
        /\ ~AllAttemptsFailed(last) => last.ret /= YACA_ERROR_PASSWORD_INVALID

\* an encrypted DER PKCS8 key offered with the wrong password
C26_Witness ==
    /\ Sniffed(last)
    /\ last.tried = <<"DER_PKCS8">>
    /\ SignalLatched(last)
    /\ last.ret = YACA_ERROR_PASSWORD_INVALID

(***************************************************************************)
(* C30: when import, export, generate, derive_pbkdf2 or extract_public     *)
(* returns a non-zero code, the call has written none of its outputs: the  *)
(* key handle and the (data, data_len) pair hold what they held before.    *)
(***************************************************************************)
OutputOps == {"import", "export", "gen", "derive", "extract_public"}

C30_OutputsUntouchedOnFailure ==
    (last.op \in OutputOps /\ last.ret \notin {YACA_ERROR_NONE, PROCESS_ABORTED}) =>
        /\ last.key_out = KEY_NULL
        /\ last.buf_out = BUF_UNSET
        /\ last.op = "export" => buf = BUF_UNSET

====
